---- MODULE Spec2Model ----
(***************************************************************************)
(* Realtime fan-out core of laba_zis: the per-room hub event loop          *)
(* (internal/websocket, Hub), the connection manager entry points that     *)
(* feed it, the per-connection pumps, and the voice upload pipeline        *)
(* (internal/voice, Handler) with its two stores.                          *)
(*                                                                         *)
(* One room is modelled.  Go channel operations are the atomic steps: a    *)
(* handler of the hub is one action up to the next blocking channel send,  *)
(* and the hub's position inside a handler is kept in hubPc.               *)
(***************************************************************************)
EXTENDS Integers, Sequences, FiniteSets, TLC

\* ---------------------------------------------------------------- bounds
\* capacity of a client's outbound queue (256 in NewClient, scaled down)
ClientCap == 2
\* capacity of the hub's broadcast inbox (256 in NewHub, scaled down)
HubCap == 2
\* number of external BroadcastToRoom calls made by arbitrary tasks
MaxSends == 2

\* the idle threshold of a hub (5 minutes in handleHealthCheck), in ticks
IdleThreshold == 1

\* number of HTTP requests (uploads, deletes) that get past the checks of
\* their handler and reach the stores
MaxRequests == 3

\* the client connections ever opened for the room
Clients == {1, 2}

VARIABLES
    hubPc,        \* position of the hub goroutine
    clients,      \* h.clients
    broadcast,    \* h.broadcast (buffered channel)
    bcastClosed,  \* h.broadcast has been closed
    shutdownSig,  \* h.shutdown has been closed
    cur,          \* message being handled by handleBroadcast
    todo,         \* clients the range loop of handleBroadcast has not reached
    pend,         \* client whose user_joined / user_left is being sent
    ret,          \* where the hub continues after broadcastUserLeft
    connected,    \* metrics.ConnectedClients
    sent,         \* metrics.MessagesSent
    dropped,      \* metrics.MessagesDropped
    send,         \* client.send (buffered channel), per client
    sendClosed,   \* client.send has been closed, per client
    closes,       \* number of close(client.send) calls made, per client
    rd,           \* position of HandleConnection and then of the client's reader
    firstEnq,     \* type of the first envelope ever placed on client.send
    horizon,      \* dispatch number up to which the client has been served
    procSeq,      \* dispatch number of the envelope the hub handled last
    nextSeq,      \* next dispatch number (order of arrival in h.broadcast)
    sends,        \* number of external BroadcastToRoom calls so far
    panics,       \* number of "send on closed channel" panics of external callers
    member,       \* room_participants: the users in the room
    blobs,        \* object store: the keys it holds
    rows,         \* voice_messages: the metadata rows
    req,          \* the HTTP request being served by the voice handler
    nextId,       \* next value of uuid.New()
    nreq,         \* number of HTTP requests served so far
    wrExited,     \* the client's writer has returned (socket closed), per client
    up,           \* the upgrade request made for each connection and its answer
    shutdownReturned, \* ConnectionManager.Shutdown has returned
    hubMap,       \* cm.hubs: the hub stored for the room, NoHub for none
    hubLoop,      \* position of each hub's Run task
    shutCalls,    \* number of Hub.Shutdown calls made on each hub
    hubConn,      \* metrics.ConnectedClients of each hub
    gc,           \* the GetOrCreateHub call of each caller
    reap,         \* position of CleanupIdleHubs
    nextHub,      \* next hub NewHub constructs
    idleFor,      \* time since metrics.LastActivity of each hub, in ticks
    inbound,      \* type of the frame the client's reader read last
    dup,          \* the client a second register request was made for
    hubs,         \* cm.hubs over several rooms: the hub of each room
    conn,         \* the connections made to those rooms
    roomSends,    \* number of BroadcastToRoom calls made for those rooms
    wall,         \* the wall clock of the server: a moment and its time zone
    named         \* the object name computed last

hubVars == <<hubPc, clients, broadcast, bcastClosed, shutdownSig, cur, todo,
             pend, ret, connected, sent, dropped, procSeq, nextSeq>>
cliVars == <<send, sendClosed, closes, rd, firstEnq, horizon>>
extVars == <<sends, panics>>
upVars == <<member, blobs, rows, req, nextId, nreq>>
pumpVars == <<wrExited>>
mapVars == <<hubMap, hubLoop, shutCalls, hubConn, gc, reap, nextHub, idleFor>>
auxVars == <<inbound, dup>>
roomVars == <<hubs, conn, roomSends>>
keyVars == <<wall, named>>
moreVars == <<roomVars, keyVars>>
mgrVars == <<up, shutdownReturned, mapVars, auxVars, moreVars>>

vars == <<hubVars, cliVars, extVars, upVars, pumpVars, mgrVars>>

\* ------------------------------------------------------------- envelopes
\* ServerMessage{Type, Data}; ref is the user id or message id carried in
\* Data, seq the position at which the envelope entered h.broadcast
\* (0 for envelopes that never pass through the inbox).
Envelope(t, r, s) == [type |-> t, ref |-> r, seq |-> s]

NoMessage == Envelope("none", 0, 0)

\* "type" of the envelope the voice handler hands to BroadcastToRoom
VoiceEnvelopeType == "voice_message"

\* Data (an `any`) that encoding/json rejects, a channel or a function value
BadPayload == 0 - 1

\* json.Marshal(message) returns no error
Marshals(e) == e.ref # BadPayload

\* the types of the inbound frames tried: the three inbound types of the
\* protocol and one that is none of them
FrameTypes == {"ping", "typing", "read_receipt", "bogus"}

\* ------------------------------------------------------- voice pipeline
\* maxDuration
maxDuration == 15

\* maxUploadSize, in bytes
maxUploadSize == 5 * 1024 * 1024

\* the authenticated users; uuid.Nil is what auth.GetUserID gives for a
\* request that carries no identity
Users == {1, 2}
NoUser == 0

\* strconv.Atoi on a string given as its sequence of characters: an optional
\* sign, then at least one decimal digit and nothing else.
DigitVal(ch) ==
    CASE ch = "0" -> 0 [] ch = "1" -> 1 [] ch = "2" -> 2 [] ch = "3" -> 3
      [] ch = "4" -> 4 [] ch = "5" -> 5 [] ch = "6" -> 6 [] ch = "7" -> 7
      [] ch = "8" -> 8 [] ch = "9" -> 9 [] OTHER -> -1

HasSign(str) == str # <<>> /\ Head(str) \in {"+", "-"}

Unsigned(str) == IF HasSign(str) THEN Tail(str) ELSE str

RECURSIVE Magnitude(_)
Magnitude(ds) ==
    IF ds = <<>> THEN 0
    ELSE 10 * Magnitude(SubSeq(ds, 1, Len(ds) - 1)) + DigitVal(ds[Len(ds)])

AtoiOk(str) ==
    /\ Unsigned(str) # <<>>
    /\ \A i \in 1..Len(Unsigned(str)) : DigitVal(Unsigned(str)[i]) >= 0

Atoi(str) ==
    IF HasSign(str) /\ Head(str) = "-"
    THEN 0 - Magnitude(Unsigned(str))
    ELSE Magnitude(Unsigned(str))

\* the duration_seconds form values tried
DurationInputs ==
    { <<>>, <<"0">>, <<"1">>, <<"1", "5">>, <<"1", "6">>, <<"-", "1">>, <<"1", "a">> }

\* the room_id form values tried: absent, not a UUID, the room's id
RoomInputs == {"", "bad", "room"}

\* the "audio" part of the form: absent, failing to be read, of length 0,
\* some bytes
FileInputs == {"missing", "unreadable", "empty", "bytes"}

\* the lengths of the request body tried: the cap and one byte more
BodySizes == {maxUploadSize, maxUploadSize + 1}

\* r.Body = http.MaxBytesReader(w, r.Body, maxUploadSize);
\* r.ParseMultipartForm(maxUploadSize) returns no error: the reader gives an
\* error once more than maxUploadSize bytes are read from a body of n bytes,
\* and the parser gives one for a body that is not a multipart form (w).
FormParses(n, w) == w /\ ~(n > maxUploadSize)

\* the upload requests tried: any identity and duration, and at most one
\* other defect (length, form, room_id, audio part, failing membership probe)
UploadInputs ==
    { i \in [s : Users \cup {NoUser}, n : BodySizes, w : BOOLEAN, r : RoomInputs,
              d : DurationInputs, a : FileInputs, e : BOOLEAN] :
         Cardinality({x \in {"n", "w", "r", "a", "e"} :
                         \/ x = "n" /\ i.n # maxUploadSize
                         \/ x = "w" /\ ~i.w
                         \/ x = "r" /\ i.r # "room"
                         \/ x = "a" /\ i.a # "bytes"
                         \/ x = "e" /\ i.e}) <= 1 }

\* duration, err := strconv.Atoi(durationStr);
\* !(err != nil || duration <= 0 || duration > maxDuration)
DurationOk(str) ==
    AtoiOk(str) /\ ~(Atoi(str) <= 0 \/ Atoi(str) > maxDuration)

\* MinIOVoiceStore.UploadVoiceMessage names the object after the message id
\* and the audio format (the date part of the name is left out).
ObjectName(id, fmt) == [id |-> id, ext |-> fmt]

NoKey == ObjectName(0, "")

\* a voice_messages row
Row(id, key, sender, dur) == [id |-> id, key |-> key, sender |-> sender, dur |-> dur]

\* no request is being served.  size, form, room, audio and probeErr are
\* the request as it came in, wasMember the answer of IsUserInRoom, url the
\* presigned URL of the answer.
NoRequest ==
    [op |-> "none", pc |-> "idle", sender |-> NoUser, dur |-> <<>>,
     size |-> 0, form |-> TRUE, room |-> "", audio |-> "", probeErr |-> FALSE,
     wasMember |-> FALSE, url |-> "",
     ctxDone |-> FALSE, id |-> 0, key |-> NoKey,
     put |-> FALSE, inserted |-> FALSE, delKey |-> NoKey, bcast |-> FALSE,
     status |-> 0, target |-> 0]

\* ------------------------------------------------------ upgrade handler
\* the token values tried, in the query and in the Authorization header:
\* none, one that does not validate, the access tokens of users 1 and 2
TokenInputs == {"", "bad", "tok1", "tok2"}

\* claims, err := h.authService.ValidateAccessToken(token): the user of the
\* claims, NoUser for an error
ValidateAccessToken(tok) ==
    CASE tok = "tok1" -> 1
      [] tok = "tok2" -> 2
      [] OTHER -> NoUser

\* no upgrade request has been made for the connection.  room, token, header
\* and probeErr are the request as it came in (token the query parameter,
\* header the bearer token of the Authorization header), upgradeOk
\* whether the protocol upgrade can be performed, user the user of the token
\* in the query, members the participants of the room when the request is
\* served, status the answer (101 for a performed upgrade).
NoUpgrade ==
    [room |-> "", token |-> "", header |-> "", probeErr |-> FALSE,
     upgradeOk |-> FALSE, members |-> {}, user |-> NoUser, status |-> 0]

\* the upgrade requests tried: the token in at most one of the two places,
\* and at most one other defect (room_id, failing membership probe,
\* failing protocol upgrade)
UpgradeInputs ==
    { i \in [r : RoomInputs, q : TokenInputs, h : TokenInputs, e : BOOLEAN,
              g : BOOLEAN] :
         /\ i.q = "" \/ i.h = ""
         /\ Cardinality({x \in {"r", "e", "g"} :
                            \/ x = "r" /\ i.r # "room"
                            \/ x = "e" /\ i.e
                            \/ x = "g" /\ ~i.g}) <= 1 }

\* ------------------------------------------------------ room -> hub map
\* the tasks that connect to the room, each through one call of
\* GetOrCreateHub
Callers == {1, 2, 3}

\* the hubs NewHub can construct for the room, at most one per call
HubIds == 1..Cardinality(Callers)
NoHub == 0

\* a caller that has not called GetOrCreateHub: mine is the hub the call
\* constructed, got the hub it returned, peers the callers whose calls
\* overlapped this one in time
NoCall == [pc |-> "idle", mine |-> NoHub, got |-> NoHub, peers |-> {}]

\* ------------------------------------------------------------------ Init
\* NewConnectionManager: the room has no hub yet.
HubInit ==
    /\ hubPc = "none"
    /\ clients = {}
    /\ broadcast = <<>>
    /\ bcastClosed = FALSE
    /\ shutdownSig = FALSE
    /\ cur = NoMessage
    /\ todo = {}
    /\ pend = 0
    /\ ret = "select"
    /\ connected = 0
    /\ sent = 0
    /\ dropped = 0
    /\ procSeq = 0
    /\ nextSeq = 1

ClientInit ==
    /\ send = [c \in Clients |-> <<>>]
    /\ sendClosed = [c \in Clients |-> FALSE]
    /\ closes = [c \in Clients |-> 0]
    /\ rd = [c \in Clients |-> "idle"]
    /\ firstEnq = [c \in Clients |-> "none"]
    /\ horizon = [c \in Clients |-> 0]

\* User 1 is a participant of the room, user 2 is not; the stores are empty.
UploadInit ==
    /\ member = {1}
    /\ blobs = {}
    /\ rows = {}
    /\ req = NoRequest
    /\ nextId = 1
    /\ nreq = 0

\* No upgrade request has been made, the manager is running.
ManagerInit ==
    /\ wrExited = [c \in Clients |-> FALSE]
    /\ up = [c \in Clients |-> NoUpgrade]
    /\ shutdownReturned = FALSE
    /\ hubMap = NoHub
    /\ hubLoop = [h \in HubIds |-> "new"]
    /\ shutCalls = [h \in HubIds |-> 0]
    /\ hubConn = [h \in HubIds |-> 0]
    /\ gc = [p \in Callers |-> NoCall]
    /\ reap = [pc |-> "idle", hub |-> NoHub]
    /\ nextHub = 1
    /\ idleFor = [h \in HubIds |-> 0]
    /\ inbound = [c \in Clients |-> "none"]
    /\ dup = 0

\* ------------------------------------------------------- several rooms
\* the rooms of the several-room view of the manager
Rooms == {1, 2}
NoRoom == 0

\* An envelope as a hub of that view handles it: room is the room it was
\* made for (the roomID of BroadcastToRoom, or h.roomID of the hub that made
\* it), type its Type.
RoomEnvelope(r, t) == [room |-> r, type |-> t]

\* NewHub(roomID, log) before it is stored: no loop runs, no client.
NewHub ==
    [run |-> FALSE, pc |-> "select", clients |-> {}, broadcast |-> <<>>,
     cur |-> RoomEnvelope(NoRoom, ""), todo |-> {}, ret |-> "select", pend |-> 0]

\* a connection nothing has been done with
NoConn == [st |-> "idle", room |-> NoRoom, send |-> <<>>, closed |-> FALSE]

\* cm.hubs holds no started hub, no connection has been made.
RoomsInit ==
    /\ hubs = [r \in Rooms |-> NewHub]
    /\ conn = [c \in Clients |-> NoConn]
    /\ roomSends = 0

\* ------------------------------------------------------------ blob keys
\* a moment of the wall clock in UTC: year, month, day of the month, hour
Moments ==
    [y : {2024, 2025}, m : {1, 2, 3, 12}, d : {1, 2, 12, 28, 29, 30, 31}, h : {0, 5, 23}]

\* offsets of the server's local time zone from UTC, in hours
Zones == {0 - 5, 0, 3}

Leap(y) == (y % 4 = 0 /\ y % 100 # 0) \/ y % 400 = 0

DaysIn(y, m) ==
    IF m = 2 THEN (IF Leap(y) THEN 29 ELSE 28)
    ELSE IF m \in {4, 6, 9, 11} THEN 30
    ELSE 31

\* the moments that exist in the calendar
IsDate(t) == t.d <= DaysIn(t.y, t.m)

\* the date one day after and one day before the date of t
NextDay(t) ==
    IF t.d < DaysIn(t.y, t.m) THEN [t EXCEPT !.d = @ + 1]
    ELSE IF t.m < 12 THEN [t EXCEPT !.d = 1, !.m = @ + 1]
    ELSE [t EXCEPT !.d = 1, !.m = 1, !.y = @ + 1]

PrevDay(t) ==
    IF t.d > 1 THEN [t EXCEPT !.d = @ - 1]
    ELSE IF t.m > 1 THEN [t EXCEPT !.d = DaysIn(t.y, t.m - 1), !.m = @ - 1]
    ELSE [t EXCEPT !.d = 31, !.m = 12, !.y = @ - 1]

\* time.Now(): the moment t as a time in the Local location, whose offset
\* from UTC is z hours; Year, Month and Day read that local date.
Now(t, z) ==
    IF t.h + z < 0 THEN [PrevDay(t) EXCEPT !.h = t.h + z + 24]
    ELSE IF t.h + z > 23 THEN [NextDay(t) EXCEPT !.h = t.h + z - 24]
    ELSE [t EXCEPT !.h = t.h + z]

\* the verb %d: the decimal digits of n
RECURSIVE Digits(_)
Digits(n) == IF n < 10 THEN <<n>> ELSE Append(Digits(n \div 10), n % 10)

\* the verb %02d: the decimal digits of n, padded with a zero to two
Pad2(n) == IF n < 10 THEN <<0, n>> ELSE Digits(n)

\* UploadVoiceMessage, objectName := fmt.Sprintf("messages/%d/%02d/%02d/%s.%s",
\* now.Year(), now.Day(), now.Month(), messageID, audioFormat): the path
\* segments of the name in their order.
objectName(now, id, fmt) ==
    [dir |-> "messages", seg1 |-> Digits(now.y), seg2 |-> Pad2(now.d),
     seg3 |-> Pad2(now.m), id |-> id, ext |-> fmt]

\* generateObjectName of the other copy of the store: the same format with
\* now.Year(), now.Month(), now.Day().
generateObjectName(now, id, fmt) ==
    [dir |-> "messages", seg1 |-> Digits(now.y), seg2 |-> Pad2(now.m),
     seg3 |-> Pad2(now.d), id |-> id, ext |-> fmt]

NoWall == [set |-> FALSE, t |-> [y |-> 0, m |-> 0, d |-> 0, h |-> 0], z |-> 0]
NoName == [put |-> objectName([y |-> 0, m |-> 0, d |-> 0], 0, ""),
           gen |-> generateObjectName([y |-> 0, m |-> 0, d |-> 0], 0, "")]

\* The clock has not been looked at, no object has been named.
KeyInit ==
    /\ wall = NoWall
    /\ named = NoName

Init ==
    /\ HubInit
    /\ ClientInit
    /\ sends = 0
    /\ panics = 0
    /\ UploadInit
    /\ ManagerInit
    /\ RoomsInit
    /\ KeyInit

\* ------------------------------------------------------ channel helpers
\* A non-blocking enqueue onto client.send succeeds iff the buffer has room.
HasRoom(c) == Len(send[c]) < ClientCap

\* firstEnq after envelope e has been placed on c's queue
FirstAfter(c, e) == IF firstEnq[c] = "none" THEN e.type ELSE firstEnq[c]

\* Client.SendMessage(msg): direct non-blocking enqueue onto the client's own
\* outbound queue (the envelope is not queued when the buffer is full).
SendMessage(c, e) ==
    IF HasRoom(c)
    THEN /\ send' = [send EXCEPT ![c] = Append(@, e)]
         /\ firstEnq' = [firstEnq EXCEPT ![c] = FirstAfter(c, e)]
    ELSE UNCHANGED <<send, firstEnq>>

\* ----------------------------------------------- connection manager side
\* ConnectionManager.HandleConnection up to its send on hub.register:
\* GetOrCreateHub starts the hub loop when the room has no hub yet, NewClient
\* makes the client, then the caller waits on the unbuffered register inbox.
HandleConnection(c) ==
    /\ rd[c] = "idle"
    /\ rd' = [rd EXCEPT ![c] = "registering"]
    /\ hubPc' = IF hubPc = "none" THEN "select" ELSE hubPc
    /\ UNCHANGED <<clients, broadcast, bcastClosed, shutdownSig, cur, todo, pend,
                   ret, connected, sent, dropped, procSeq, nextSeq>>
    /\ UNCHANGED <<send, sendClosed, closes, firstEnq, horizon>>
    /\ UNCHANGED extVars
    /\ UNCHANGED pumpVars

\* A connection of a user admitted to the room is handed to HandleConnection.
Connect(c) ==
    /\ HandleConnection(c)
    /\ UNCHANGED upVars
    /\ UNCHANGED mgrVars

\* The answer websocket.Handler.HandleConnection gives before it calls
\* ConnectionManager.HandleConnection, 0 when every check passes.  r is the
\* room_id of the query, q the token of the query, e whether IsUserInRoom
\* returns an error.  The Authorization header is not read.
UpgradeCheck(r, q, e) ==
    IF r = "" THEN 400
    ELSE IF r # "room" THEN 400
    ELSE IF q = "" THEN 401
    ELSE IF ValidateAccessToken(q) = NoUser THEN 401
    ELSE IF e \/ ValidateAccessToken(q) \notin member THEN 403
    ELSE 0

\* websocket.Handler.HandleConnection for connection c: the checks, then
\* ConnectionManager.HandleConnection, whose protocol upgrade may fail (g)
\* and is then answered 500 before any hub is looked up.
HandleUpgrade(c, r, q, h, e, g) ==
    /\ up[c].status = 0
    /\ rd[c] = "idle"
    /\ LET request == [NoUpgrade EXCEPT
                          !.room = r, !.token = q, !.header = h, !.probeErr = e,
                          !.upgradeOk = g, !.user = ValidateAccessToken(q),
                          !.members = member]
       IN IF UpgradeCheck(r, q, e) # 0
          THEN /\ up' = [up EXCEPT ![c] = [request EXCEPT !.status = UpgradeCheck(r, q, e)]]
               /\ UNCHANGED <<hubVars, cliVars, extVars, pumpVars>>
          ELSE IF ~g
          THEN /\ up' = [up EXCEPT ![c] = [request EXCEPT !.status = 500]]
               /\ UNCHANGED <<hubVars, cliVars, extVars, pumpVars>>
          ELSE /\ up' = [up EXCEPT ![c] = [request EXCEPT !.status = 101]]
               /\ HandleConnection(c)
    /\ UNCHANGED upVars
    /\ UNCHANGED <<shutdownReturned, mapVars, auxVars, moreVars>>

\* Fault variant of Send: an envelope refused by a full inbox is discarded
\* without being counted.
SendUncounted(t, r) ==
    IF bcastClosed
    THEN /\ panics' = panics + 1
         /\ UNCHANGED <<broadcast, nextSeq, dropped>>
    ELSE IF Len(broadcast) < HubCap
    THEN /\ broadcast' = Append(broadcast, Envelope(t, r, nextSeq))
         /\ nextSeq' = nextSeq + 1
         /\ UNCHANGED <<dropped, panics>>
    ELSE UNCHANGED <<broadcast, nextSeq, dropped, panics>>

\* Hub.Send(message): select { case h.broadcast <- message: default: dropped++ }.
\* A send on a closed channel panics, also inside a select with a default.
Send(t, r) ==
    IF bcastClosed
    THEN /\ panics' = panics + 1
         /\ UNCHANGED <<broadcast, nextSeq, dropped>>
    ELSE IF Len(broadcast) < HubCap
    THEN /\ broadcast' = Append(broadcast, Envelope(t, r, nextSeq))
         /\ nextSeq' = nextSeq + 1
         /\ UNCHANGED <<dropped, panics>>
    ELSE /\ dropped' = dropped + 1
         /\ UNCHANGED <<broadcast, nextSeq, panics>>

\* Fault variant of BroadcastToRoom: the envelope is queued for the room
\* whether or not the map holds a hub for it.
BroadcastToRoomAnyway(t, r) == Send(t, r)

\* ConnectionManager.BroadcastToRoom(roomID, message): Send on the room's hub
\* when the map holds one, otherwise a warning and nothing else.
BroadcastToRoom(t, r) ==
    IF hubPc = "none"
    THEN UNCHANGED <<broadcast, nextSeq, dropped, panics>>
    ELSE Send(t, r)

\* A task outside the hub broadcasts an envelope to the room.
ExtSend ==
    /\ sends < MaxSends
    /\ sends' = sends + 1
    /\ BroadcastToRoom(VoiceEnvelopeType, sends + 1)
    /\ UNCHANGED <<hubPc, clients, bcastClosed, shutdownSig, cur, todo, pend, ret,
                   connected, sent, procSeq>>
    /\ UNCHANGED cliVars
    /\ UNCHANGED upVars
    /\ UNCHANGED pumpVars
    /\ UNCHANGED mgrVars

\* A task outside the hub broadcasts to the room an envelope whose Data does
\* not marshal.
ExtSendPayload ==
    /\ sends < MaxSends
    /\ sends' = sends + 1
    /\ BroadcastToRoom(VoiceEnvelopeType, BadPayload)
    /\ UNCHANGED <<hubPc, clients, bcastClosed, shutdownSig, cur, todo, pend, ret,
                   connected, sent, procSeq>>
    /\ UNCHANGED cliVars
    /\ UNCHANGED upVars
    /\ UNCHANGED pumpVars
    /\ UNCHANGED mgrVars

\* ConnectionManager.Shutdown: the map is ranged, Hub.Shutdown is called on
\* the room's hub, close(h.shutdown), and the call returns.
ManagerShutdown ==
    /\ hubPc # "none"
    /\ ~shutdownSig
    /\ shutdownSig' = TRUE
    /\ shutdownReturned' = TRUE
    /\ UNCHANGED <<hubPc, clients, broadcast, bcastClosed, cur, todo, pend, ret,
                   connected, sent, dropped, procSeq, nextSeq>>
    /\ UNCHANGED cliVars
    /\ UNCHANGED extVars
    /\ UNCHANGED upVars
    /\ UNCHANGED pumpVars
    /\ UNCHANGED <<up, mapVars, auxVars, moreVars>>

\* ------------------------------------------------ lifecycle of the hubs
\* the part of the model outside the room -> hub map
restVars == <<hubVars, cliVars, extVars, upVars, pumpVars, up, shutdownReturned, auxVars,
              moreVars>>

\* GetOrCreateHub, cm.hubs.Load(roomID): a hub found is returned; otherwise
\* NewHub constructs one, with LastActivity the present moment.  The calls
\* in progress at this moment overlap this one.
GetLoad(p) ==
    /\ gc[p].pc = "idle"
    /\ LET inCall == {q \in Callers : gc[q].pc = "miss"}
           mine == IF hubMap = NoHub THEN nextHub ELSE NoHub
       IN gc' = [q \in Callers |->
                   IF q = p
                   THEN [pc |-> IF hubMap = NoHub THEN "miss" ELSE "done",
                         mine |-> mine, got |-> hubMap, peers |-> inCall]
                   ELSE IF q \in inCall
                   THEN [gc[q] EXCEPT !.peers = @ \cup {p}]
                   ELSE gc[q]]
    /\ nextHub' = IF hubMap = NoHub THEN nextHub + 1 ELSE nextHub
    /\ idleFor' = IF hubMap = NoHub THEN [idleFor EXCEPT ![nextHub] = 0] ELSE idleFor
    /\ UNCHANGED <<hubMap, hubLoop, shutCalls, hubConn, reap>>
    /\ UNCHANGED restVars

\* GetOrCreateHub, actual, loaded := cm.hubs.LoadOrStore(roomID, hub): the
\* constructed hub is stored and its Run task started when the map holds
\* none; otherwise the stored one is returned and the constructed one dropped.
GetLoadOrStore(p) ==
    /\ gc[p].pc = "miss"
    /\ IF hubMap = NoHub
       THEN /\ hubMap' = gc[p].mine
            /\ hubLoop' = [hubLoop EXCEPT ![gc[p].mine] = "running"]
            /\ gc' = [gc EXCEPT ![p] = [@ EXCEPT !.pc = "done", !.got = gc[p].mine]]
       ELSE /\ gc' = [gc EXCEPT ![p] = [@ EXCEPT !.pc = "done", !.got = hubMap]]
            /\ UNCHANGED <<hubMap, hubLoop>>
    /\ UNCHANGED <<shutCalls, hubConn, reap, nextHub, idleFor>>
    /\ UNCHANGED restVars

\* HandleConnection after GetOrCreateHub: hub.register <- client is received
\* by the hub's loop, which stores ConnectedClients.
RegisterAt(p) ==
    /\ gc[p].pc = "done"
    /\ hubLoop[gc[p].got] = "running"
    /\ gc' = [gc EXCEPT ![p] = [@ EXCEPT !.pc = "registered"]]
    /\ hubConn' = [hubConn EXCEPT ![gc[p].got] = @ + 1]
    /\ UNCHANGED <<hubMap, hubLoop, shutCalls, reap, nextHub, idleFor>>
    /\ UNCHANGED restVars

\* CleanupIdleHubs, the Range callback up to its test: the hub the map holds
\* is snapshotted and has no connected client.  LastActivity is not read.
CleanupSnapshot ==
    /\ reap.pc = "idle"
    /\ hubMap # NoHub
    /\ hubConn[hubMap] = 0
    /\ reap' = [pc |-> "shutdown", hub |-> hubMap]
    /\ UNCHANGED <<hubMap, hubLoop, shutCalls, hubConn, gc, nextHub, idleFor>>
    /\ UNCHANGED restVars

\* CleanupIdleHubs: hub.Shutdown().
CleanupShutdown ==
    /\ reap.pc = "shutdown"
    /\ shutCalls' = [shutCalls EXCEPT ![reap.hub] = @ + 1]
    /\ reap' = [reap EXCEPT !.pc = "delete"]
    /\ UNCHANGED <<hubMap, hubLoop, hubConn, gc, nextHub, idleFor>>
    /\ UNCHANGED restVars

\* CleanupIdleHubs: cm.hubs.Delete(roomID), whatever the key holds by now.
CleanupDelete ==
    /\ reap.pc = "delete"
    /\ hubMap' = NoHub
    /\ reap' = [pc |-> "idle", hub |-> NoHub]
    /\ UNCHANGED <<hubLoop, shutCalls, hubConn, gc, nextHub, idleFor>>
    /\ UNCHANGED restVars

\* ConnectionManager.Shutdown over the map of this room: Hub.Shutdown on the
\* hub it holds; the hub stays in the map.  main calls it once.
ShutdownHubs ==
    /\ ~shutdownReturned
    /\ shutdownReturned' = TRUE
    /\ shutCalls' = [h \in HubIds |-> IF h = hubMap THEN shutCalls[h] + 1 ELSE shutCalls[h]]
    /\ UNCHANGED <<hubMap, hubLoop, hubConn, gc, reap, nextHub, idleFor>>
    /\ UNCHANGED <<hubVars, cliVars, extVars, upVars, pumpVars, up, auxVars, moreVars>>

\* Run, case <-h.shutdown: the loop of a hub whose shutdown signal is closed
\* handles it and returns.
HubLoopStops(h) ==
    /\ hubLoop[h] = "running"
    /\ shutCalls[h] > 0
    /\ hubLoop' = [hubLoop EXCEPT ![h] = "stopped"]
    /\ UNCHANGED <<hubMap, shutCalls, hubConn, gc, reap, nextHub, idleFor>>
    /\ UNCHANGED restVars

\* Time passes: every running hub has been without a broadcast for one more
\* tick.  LastActivity is set by NewHub and by handleBroadcast only.
Elapse ==
    /\ \E h \in HubIds : hubLoop[h] = "running" /\ idleFor[h] < IdleThreshold
    /\ idleFor' = [h \in HubIds |->
                     IF hubLoop[h] = "running" /\ idleFor[h] < IdleThreshold
                     THEN idleFor[h] + 1 ELSE idleFor[h]]
    /\ UNCHANGED <<hubMap, hubLoop, shutCalls, hubConn, gc, reap, nextHub>>
    /\ UNCHANGED restVars

\* ------------------------------------------------------------ hub loop
\* Fault variant of HubRecvRegister: the client is registered but the
\* connection_ack is not placed on its queue by the hub.
HubRecvRegisterNoAck(c) ==
    /\ hubPc = "select"
    /\ rd[c] = "registering"
    /\ rd' = [rd EXCEPT ![c] = "running"]
    /\ clients' = clients \cup {c}
    /\ connected' = Cardinality(clients')
    /\ horizon' = [horizon EXCEPT ![c] = procSeq]
    /\ hubPc' = "sendJoined"
    /\ pend' = c
    /\ UNCHANGED <<broadcast, bcastClosed, shutdownSig, cur, todo, ret, sent,
                   dropped, procSeq, nextSeq>>
    /\ UNCHANGED <<send, firstEnq, sendClosed, closes>>
    /\ UNCHANGED extVars
    /\ UNCHANGED upVars
    /\ UNCHANGED pumpVars
    /\ UNCHANGED mgrVars

\* case client := <-h.register: handleRegister(client), up to the send of
\* user_joined on h.broadcast.  The rendezvous lets HandleConnection go on
\* and start the two pumps.
HubRecvRegister(c) ==
    /\ hubPc = "select"
    /\ rd[c] = "registering"
    /\ rd' = [rd EXCEPT ![c] = "running"]
    /\ clients' = clients \cup {c}
    /\ connected' = Cardinality(clients')
    /\ SendMessage(c, Envelope("connection_ack", c, 0))
    /\ horizon' = [horizon EXCEPT ![c] = procSeq]
    /\ hubPc' = "sendJoined"
    /\ pend' = c
    /\ UNCHANGED <<broadcast, bcastClosed, shutdownSig, cur, todo, ret, sent,
                   dropped, procSeq, nextSeq>>
    /\ UNCHANGED <<sendClosed, closes>>
    /\ UNCHANGED extVars
    /\ UNCHANGED upVars
    /\ UNCHANGED pumpVars
    /\ UNCHANGED mgrVars

\* case client := <-h.register for a client that is already in h.clients:
\* handleRegister makes no membership test; it stores the client again,
\* stores ConnectedClients, enqueues connection_ack and goes to send
\* user_joined, as for a first request.
HubRecvRegisterAgain(c) ==
    /\ hubPc = "select"
    /\ rd[c] = "running"
    /\ c \in clients
    /\ dup = 0
    /\ dup' = c
    /\ clients' = clients \cup {c}
    /\ connected' = Cardinality(clients')
    /\ SendMessage(c, Envelope("connection_ack", c, 0))
    /\ hubPc' = "sendJoined"
    /\ pend' = c
    /\ UNCHANGED <<broadcast, bcastClosed, shutdownSig, cur, todo, ret, sent,
                   dropped, procSeq, nextSeq>>
    /\ UNCHANGED <<sendClosed, closes, rd, horizon>>
    /\ UNCHANGED extVars
    /\ UNCHANGED upVars
    /\ UNCHANGED pumpVars
    /\ UNCHANGED <<up, shutdownReturned, mapVars, inbound, moreVars>>

\* broadcastUserJoined: h.broadcast <- user_joined, a blocking send made by
\* the hub goroutine on its own inbox.
HubSendJoined ==
    /\ hubPc = "sendJoined"
    /\ Len(broadcast) < HubCap
    /\ broadcast' = Append(broadcast, Envelope("user_joined", pend, nextSeq))
    /\ nextSeq' = nextSeq + 1
    /\ hubPc' = "select"
    /\ pend' = 0
    /\ UNCHANGED <<clients, bcastClosed, shutdownSig, cur, todo, ret, connected,
                   sent, dropped, procSeq>>
    /\ UNCHANGED cliVars
    /\ UNCHANGED extVars
    /\ UNCHANGED upVars
    /\ UNCHANGED pumpVars
    /\ UNCHANGED mgrVars

\* Fault variant of HubRecvUnregister: the request is not checked against
\* h.clients, so a client that is not in the set is removed, closed and
\* announced as well.
HubRecvUnregisterUnchecked(c) ==
    /\ hubPc = "select"
    /\ rd[c] = "unregistering"
    /\ rd' = [rd EXCEPT ![c] = "done"]
    /\ clients' = clients \ {c}
    /\ sendClosed' = [sendClosed EXCEPT ![c] = TRUE]
    /\ closes' = [closes EXCEPT ![c] = @ + 1]
    /\ connected' = Cardinality(clients')
    /\ hubPc' = "sendLeft"
    /\ pend' = c
    /\ UNCHANGED <<broadcast, bcastClosed, shutdownSig, cur, todo, ret, sent,
                   dropped, procSeq, nextSeq>>
    /\ UNCHANGED <<send, firstEnq, horizon>>
    /\ UNCHANGED extVars
    /\ UNCHANGED upVars
    /\ UNCHANGED pumpVars
    /\ UNCHANGED mgrVars

\* case client := <-h.unregister: handleUnregister(client), up to the send
\* of user_left: for a client found in h.clients delete it, close(client.send)
\* and store ConnectedClients; nothing for a client that is not in the set.
HubRecvUnregister(c) ==
    /\ hubPc = "select"
    /\ rd[c] = "unregistering"
    /\ rd' = [rd EXCEPT ![c] = "done"]
    /\ IF c \in clients
       THEN /\ clients' = clients \ {c}
            /\ sendClosed' = [sendClosed EXCEPT ![c] = TRUE]
            /\ closes' = [closes EXCEPT ![c] = @ + 1]
            /\ connected' = Cardinality(clients')
            /\ hubPc' = "sendLeft"
            /\ pend' = c
       ELSE UNCHANGED <<clients, sendClosed, closes, connected, hubPc, pend>>
    /\ UNCHANGED <<broadcast, bcastClosed, shutdownSig, cur, todo, ret, sent,
                   dropped, procSeq, nextSeq>>
    /\ UNCHANGED <<send, firstEnq, horizon>>
    /\ UNCHANGED extVars
    /\ UNCHANGED upVars
    /\ UNCHANGED pumpVars
    /\ UNCHANGED mgrVars

\* Fault variant of RangeLoop: a full buffer only counts as a drop, the
\* client stays registered and the loop goes on.
RangeLoopKeepsFull(m, T) ==
    /\ send' = [c \in Clients |->
                  IF c \in T /\ HasRoom(c) THEN Append(send[c], m) ELSE send[c]]
    /\ firstEnq' = [c \in Clients |->
                      IF c \in T /\ HasRoom(c) THEN FirstAfter(c, m) ELSE firstEnq[c]]
    /\ horizon' = [c \in Clients |->
                     IF c \in T /\ HasRoom(c) THEN m.seq ELSE horizon[c]]
    /\ sent' = sent + Cardinality({c \in T : HasRoom(c)})
    /\ dropped' = dropped + Cardinality({c \in T : ~HasRoom(c)})
    /\ hubPc' = "select"
    /\ cur' = NoMessage
    /\ todo' = {}
    /\ ret' = "select"
    /\ pend' = 0
    /\ UNCHANGED <<clients, sendClosed, closes, connected>>

\* The range loop of handleBroadcast over the clients in T with message m, up
\* to the next blocking send.  S are the clients reached while no full buffer
\* was met: each gets m by a non-blocking send (MessagesSent++).  Either the
\* loop ends there, or it reaches a client f whose buffer is full:
\* MessagesDropped++ and handleUnregister(f) inline, which deletes f, closes
\* f's queue and goes to send user_left.  The map is ranged in any order.
RangeLoop(m, T) ==
    \E S \in SUBSET {c \in T : HasRoom(c)} :
        /\ send' = [c \in Clients |-> IF c \in S THEN Append(send[c], m) ELSE send[c]]
        /\ firstEnq' = [c \in Clients |-> IF c \in S THEN FirstAfter(c, m) ELSE firstEnq[c]]
        /\ horizon' = [c \in Clients |-> IF c \in S THEN m.seq ELSE horizon[c]]
        /\ sent' = sent + Cardinality(S)
        /\ \/ /\ S = T
              /\ hubPc' = "select"
              /\ cur' = NoMessage
              /\ todo' = {}
              /\ ret' = "select"
              /\ pend' = 0
              /\ UNCHANGED <<clients, sendClosed, closes, connected, dropped>>
           \/ \E f \in {c \in T : ~HasRoom(c)} :
                 /\ dropped' = dropped + 1
                 /\ clients' = clients \ {f}
                 /\ sendClosed' = [sendClosed EXCEPT ![f] = TRUE]
                 /\ closes' = [closes EXCEPT ![f] = @ + 1]
                 /\ connected' = Cardinality(clients')
                 /\ hubPc' = "sendLeft"
                 /\ pend' = f
                 /\ ret' = "bcast"
                 /\ cur' = m
                 /\ todo' = T \ (S \cup {f})

\* Fault variant of HubRecvBroadcast: the newest envelope of the inbox is
\* taken instead of the oldest.
HubRecvBroadcastNewest ==
    /\ hubPc = "select"
    /\ broadcast # <<>>
    /\ broadcast' = SubSeq(broadcast, 1, Len(broadcast) - 1)
    /\ procSeq' = broadcast[Len(broadcast)].seq
    /\ RangeLoop(broadcast[Len(broadcast)], clients)
    /\ UNCHANGED <<bcastClosed, shutdownSig, nextSeq>>
    /\ UNCHANGED rd
    /\ UNCHANGED extVars
    /\ UNCHANGED upVars
    /\ UNCHANGED pumpVars
    /\ UNCHANGED mgrVars

\* Fault variant of HubRecvBroadcast: the envelope is handed to the clients
\* as it is, without being marshalled by the hub.
HubRecvBroadcastUnencoded ==
    /\ hubPc = "select"
    /\ broadcast # <<>>
    /\ broadcast' = Tail(broadcast)
    /\ procSeq' = Head(broadcast).seq
    /\ RangeLoop(Head(broadcast), clients)
    /\ UNCHANGED <<bcastClosed, shutdownSig, nextSeq>>
    /\ UNCHANGED rd
    /\ UNCHANGED extVars
    /\ UNCHANGED upVars
    /\ UNCHANGED pumpVars
    /\ UNCHANGED mgrVars

\* case message := <-h.broadcast: handleBroadcast(message).  The envelope is
\* marshalled once; when json.Marshal fails the error is logged and the
\* handler returns, otherwise the range loop hands the bytes to the clients.
HubRecvBroadcast ==
    /\ hubPc = "select"
    /\ broadcast # <<>>
    /\ broadcast' = Tail(broadcast)
    /\ procSeq' = Head(broadcast).seq
    /\ IF Marshals(Head(broadcast))
       THEN RangeLoop(Head(broadcast), clients)
       ELSE UNCHANGED <<send, firstEnq, horizon, sent, hubPc, cur, todo, ret, pend,
                        clients, sendClosed, closes, connected, dropped>>
    /\ UNCHANGED <<bcastClosed, shutdownSig, nextSeq>>
    /\ UNCHANGED rd
    /\ UNCHANGED extVars
    /\ UNCHANGED upVars
    /\ UNCHANGED pumpVars
    /\ UNCHANGED mgrVars

\* broadcastUserLeft: h.broadcast <- user_left, blocking; then the hub
\* returns to where handleUnregister was called from: the select of Run, or
\* the range loop of handleBroadcast.
HubSendLeft ==
    /\ hubPc = "sendLeft"
    /\ Len(broadcast) < HubCap
    /\ broadcast' = Append(broadcast, Envelope("user_left", pend, nextSeq))
    /\ nextSeq' = nextSeq + 1
    /\ IF ret = "bcast"
       THEN RangeLoop(cur, todo)
       ELSE /\ hubPc' = "select"
            /\ pend' = 0
            /\ UNCHANGED <<clients, sendClosed, closes, connected, dropped, sent, send,
                           firstEnq, horizon, cur, todo, ret>>
    /\ UNCHANGED <<bcastClosed, shutdownSig, procSeq>>
    /\ UNCHANGED rd
    /\ UNCHANGED extVars
    /\ UNCHANGED upVars
    /\ UNCHANGED pumpVars
    /\ UNCHANGED mgrVars

\* Fault variant of HubRecvShutdown: the queue of every client that ever
\* registered is closed, whether or not the client is still in h.clients.
HubRecvShutdownClosesAll ==
    /\ hubPc = "select"
    /\ shutdownSig
    /\ sendClosed' = [c \in Clients |-> sendClosed[c] \/ rd[c] \notin {"idle", "registering"}]
    /\ closes' = [c \in Clients |->
                    IF rd[c] \notin {"idle", "registering"} THEN closes[c] + 1 ELSE closes[c]]
    /\ bcastClosed' = TRUE
    /\ clients' = {}
    /\ hubPc' = "stopped"
    /\ UNCHANGED <<broadcast, shutdownSig, cur, todo, pend, ret, connected, sent,
                   dropped, procSeq, nextSeq>>
    /\ UNCHANGED <<send, rd, firstEnq, horizon>>
    /\ UNCHANGED extVars
    /\ UNCHANGED upVars
    /\ UNCHANGED pumpVars
    /\ UNCHANGED mgrVars

\* Fault variant of HubRecvShutdown: the loop returns with the inbox closed
\* and the set dropped, but the queues of the clients are left open.
HubRecvShutdownLeavesQueues ==
    /\ hubPc = "select"
    /\ shutdownSig
    /\ bcastClosed' = TRUE
    /\ clients' = {}
    /\ hubPc' = "stopped"
    /\ UNCHANGED <<broadcast, shutdownSig, cur, todo, pend, ret, connected, sent,
                   dropped, procSeq, nextSeq>>
    /\ UNCHANGED <<send, sendClosed, closes, rd, firstEnq, horizon>>
    /\ UNCHANGED extVars
    /\ UNCHANGED upVars
    /\ UNCHANGED pumpVars
    /\ UNCHANGED mgrVars

\* case <-h.shutdown: handleShutdown(); return.  Every client still in the
\* set has its queue closed, h.broadcast is closed, the set is dropped.
\* ConnectedClients is not stored here.
HubRecvShutdown ==
    /\ hubPc = "select"
    /\ shutdownSig
    /\ sendClosed' = [c \in Clients |-> sendClosed[c] \/ c \in clients]
    /\ closes' = [c \in Clients |-> IF c \in clients THEN closes[c] + 1 ELSE closes[c]]
    /\ bcastClosed' = TRUE
    /\ clients' = {}
    /\ hubPc' = "stopped"
    /\ UNCHANGED <<broadcast, shutdownSig, cur, todo, pend, ret, connected, sent,
                   dropped, procSeq, nextSeq>>
    /\ UNCHANGED <<send, rd, firstEnq, horizon>>
    /\ UNCHANGED extVars
    /\ UNCHANGED upVars
    /\ UNCHANGED pumpVars
    /\ UNCHANGED mgrVars

\* ---------------------------------------------------------------- pumps
\* readPump: a read error ends the reader, which first asks the hub to
\* unregister the client (a send on the unbuffered unregister inbox).
ReaderError(c) ==
    /\ rd[c] = "running"
    /\ rd' = [rd EXCEPT ![c] = "unregistering"]
    /\ UNCHANGED hubVars
    /\ UNCHANGED <<send, sendClosed, closes, firstEnq, horizon>>
    /\ UNCHANGED extVars
    /\ UNCHANGED upVars
    /\ UNCHANGED pumpVars
    /\ UNCHANGED mgrVars

\* Fault variant of ReaderFrame: the reader runs from the call of
\* HandleConnection on, before the register request has been received.
ReaderFrameEarly(c, t) ==
    /\ rd[c] \in {"registering", "running"}
    /\ inbound' = [inbound EXCEPT ![c] = t]
    /\ UNCHANGED hubVars
    /\ UNCHANGED cliVars
    /\ UNCHANGED extVars
    /\ UNCHANGED upVars
    /\ UNCHANGED pumpVars
    /\ UNCHANGED <<up, shutdownReturned, mapVars, dup, moreVars>>

\* readPump, c.conn.Read returns a frame: its type and its payload are
\* discarded (`_, _, err := c.conn.Read(readCtx)`) and the loop reads on.  t is
\* the type the frame carries.
ReaderFrame(c, t) ==
    /\ rd[c] = "running"
    /\ inbound' = [inbound EXCEPT ![c] = t]
    /\ UNCHANGED hubVars
    /\ UNCHANGED cliVars
    /\ UNCHANGED extVars
    /\ UNCHANGED upVars
    /\ UNCHANGED pumpVars
    /\ UNCHANGED <<up, shutdownReturned, mapVars, dup, moreVars>>

\* writePump, case message, ok := <-c.send with ok: writeMessage encodes the
\* message and writes the frame to the socket; when the encoding fails the
\* writer logs, returns and its deferred call closes the socket.  The writer
\* runs from the moment HandleConnection has registered the client; frames
\* buffered before a close are still received.
WriterWrite(c) ==
    /\ rd[c] \in {"running", "unregistering", "done"}
    /\ ~wrExited[c]
    /\ send[c] # <<>>
    /\ send' = [send EXCEPT ![c] = Tail(@)]
    /\ wrExited' = [wrExited EXCEPT ![c] = ~Marshals(Head(send[c]))]
    /\ UNCHANGED hubVars
    /\ UNCHANGED <<sendClosed, closes, rd, firstEnq, horizon>>
    /\ UNCHANGED extVars
    /\ UNCHANGED upVars
    /\ UNCHANGED mgrVars

\* writePump, case message, ok := <-c.send with !ok: the hub closed the
\* queue and everything buffered has been written; the writer closes the
\* socket with a normal-closure frame and returns.
WriterClose(c) ==
    /\ rd[c] \in {"running", "unregistering", "done"}
    /\ ~wrExited[c]
    /\ sendClosed[c]
    /\ send[c] = <<>>
    /\ wrExited' = [wrExited EXCEPT ![c] = TRUE]
    /\ UNCHANGED hubVars
    /\ UNCHANGED cliVars
    /\ UNCHANGED extVars
    /\ UNCHANGED upVars
    /\ UNCHANGED mgrVars

\* --------------------------------------------------------- membership
\* room.Handler.HandleRemoveParticipant: a participant removes themselves.
Leave(u) ==
    /\ u \in member
    /\ member' = member \ {u}
    /\ UNCHANGED <<blobs, rows, req, nextId, nreq>>
    /\ UNCHANGED <<hubVars, cliVars, extVars>>
    /\ UNCHANGED pumpVars
    /\ UNCHANGED mgrVars

\* ------------------------------------------------------- voice handler
\* Fault variant of Precheck: the answer of IsUserInRoom is not looked at,
\* only its error.
PrecheckNoMembership(s, f, r, d, a, e) ==
    IF s = NoUser THEN 401
    ELSE IF ~f THEN 401
    ELSE IF r = "" \/ d = <<>> THEN 400
    ELSE IF r # "room" THEN 400
    ELSE IF ~DurationOk(d) THEN 400
    ELSE IF e THEN 403
    ELSE IF a = "missing" THEN 400
    ELSE IF a = "unreadable" THEN 500
    ELSE IF a = "empty" THEN 400
    ELSE 0

\* The answer HandleUploadVoiceMessage gives before it touches the object
\* store, 0 when every check passes.  s is the identity of the request, f
\* whether the multipart form parses within maxUploadSize, r, d and a the
\* form's room_id, duration_seconds and audio part, e whether IsUserInRoom
\* returns an error.
Precheck(s, f, r, d, a, e) ==
    IF s = NoUser THEN 401
    ELSE IF ~f THEN 401
    ELSE IF r = "" \/ d = <<>> THEN 400
    ELSE IF r # "room" THEN 400
    ELSE IF ~DurationOk(d) THEN 400
    ELSE IF e \/ s \notin member THEN 403
    ELSE IF a = "missing" THEN 400
    ELSE IF a = "unreadable" THEN 500
    ELSE IF a = "empty" THEN 400
    ELSE 0

\* the request as HandleUploadVoiceMessage finds it
Incoming(s, n, w, r, d, a, e) ==
    [NoRequest EXCEPT !.op = "upload", !.sender = s, !.dur = d, !.size = n, !.form = w,
                      !.room = r, !.audio = a, !.probeErr = e,
                      !.wasMember = (s \in member)]

\* HandleUploadVoiceMessage from its entry to the call of UploadVoiceMessage:
\* the checks, then message.ID = uuid.New().  n is the length of the body and
\* w whether it is a multipart form.
UploadBegin(s, n, w, r, d, a, e) ==
    /\ req.pc = "idle"
    /\ IF Precheck(s, FormParses(n, w), r, d, a, e) # 0
       THEN /\ req' = [Incoming(s, n, w, r, d, a, e) EXCEPT
                          !.pc = "done",
                          !.status = Precheck(s, FormParses(n, w), r, d, a, e)]
            /\ UNCHANGED <<nextId, nreq>>
       ELSE /\ nreq < MaxRequests
            /\ req' = [Incoming(s, n, w, r, d, a, e) EXCEPT !.pc = "put", !.id = nextId]
            /\ nextId' = nextId + 1
            /\ nreq' = nreq + 1
    /\ UNCHANGED <<member, blobs, rows>>
    /\ UNCHANGED <<hubVars, cliVars, extVars>>
    /\ UNCHANGED pumpVars
    /\ UNCHANGED mgrVars

\* The request's context ends while the request is served: the client went
\* away or the handler's deadline passed.
CancelCtx ==
    /\ req.pc \in {"put", "insert", "cleanup", "broadcast", "delS3", "delDB"}
    /\ ~req.ctxDone
    /\ req' = [req EXCEPT !.ctxDone = TRUE]
    /\ UNCHANGED <<member, blobs, rows, nextId, nreq>>
    /\ UNCHANGED <<hubVars, cliVars, extVars>>
    /\ UNCHANGED pumpVars
    /\ UNCHANGED mgrVars

\* s3Key, err := h.fileStore.UploadVoiceMessage(ctx, message.ID, data, "webm"):
\* the put fails under an ended context and may fail otherwise; a failure
\* answers 500.
UploadPut ==
    /\ req.pc = "put"
    /\ \E ok \in {b \in BOOLEAN : req.ctxDone => ~b} :
          IF ok
          THEN /\ blobs' = blobs \cup {ObjectName(req.id, "webm")}
               /\ req' = [req EXCEPT !.pc = "insert", !.put = TRUE,
                                     !.key = ObjectName(req.id, "webm")]
          ELSE /\ req' = [req EXCEPT !.pc = "done", !.status = 500]
               /\ UNCHANGED blobs
    /\ UNCHANGED <<member, rows, nextId, nreq>>
    /\ UNCHANGED <<hubVars, cliVars, extVars>>
    /\ UNCHANGED pumpVars
    /\ UNCHANGED mgrVars

\* Fault variant of UploadInsert: a failed insert is not looked at and the
\* handler goes on to the broadcast.
UploadInsertIgnoresError ==
    /\ req.pc = "insert"
    /\ \E ok \in {b \in BOOLEAN : req.ctxDone => ~b} :
          IF ok
          THEN /\ rows' = rows \cup {Row(nextId, req.key, req.sender, Atoi(req.dur))}
               /\ req' = [req EXCEPT !.pc = "broadcast", !.inserted = TRUE, !.id = nextId]
          ELSE /\ req' = [req EXCEPT !.pc = "broadcast", !.id = nextId]
               /\ UNCHANGED rows
    /\ nextId' = nextId + 1
    /\ UNCHANGED <<member, blobs, nreq>>
    /\ UNCHANGED <<hubVars, cliVars, extVars>>
    /\ UNCHANGED pumpVars
    /\ UNCHANGED mgrVars

\* h.dbStore.CreateVoiceMessage(ctx, message): the store gives the message a
\* new id and inserts the row; the insert fails under an ended context and
\* may fail otherwise, and then the handler turns to the cleanup.
UploadInsert ==
    /\ req.pc = "insert"
    /\ \E ok \in {b \in BOOLEAN : req.ctxDone => ~b} :
          IF ok
          THEN /\ rows' = rows \cup {Row(nextId, req.key, req.sender, Atoi(req.dur))}
               /\ req' = [req EXCEPT !.pc = "broadcast", !.inserted = TRUE, !.id = nextId]
          ELSE /\ req' = [req EXCEPT !.pc = "cleanup", !.id = nextId]
               /\ UNCHANGED rows
    /\ nextId' = nextId + 1
    /\ UNCHANGED <<member, blobs, nreq>>
    /\ UNCHANGED <<hubVars, cliVars, extVars>>
    /\ UNCHANGED pumpVars
    /\ UNCHANGED mgrVars

\* Fault variant of UploadCleanup: the delete is made under the request's
\* context, so nothing is asked of the object store once that context ended.
UploadCleanupRequestCtx ==
    /\ req.pc = "cleanup"
    /\ IF req.ctxDone
       THEN /\ req' = [req EXCEPT !.pc = "done", !.status = 500]
            /\ UNCHANGED blobs
       ELSE \E ok \in BOOLEAN :
               /\ blobs' = IF ok THEN blobs \ {req.key} ELSE blobs
               /\ req' = [req EXCEPT !.pc = "done", !.status = 500, !.delKey = req.key]
    /\ UNCHANGED <<member, rows, nextId, nreq>>
    /\ UNCHANGED <<hubVars, cliVars, extVars>>
    /\ UNCHANGED pumpVars
    /\ UNCHANGED mgrVars

\* The cleanup after a failed insert: DeleteVoiceMessage(cleanupCtx, s3Key)
\* under a context of its own (3 s, from context.Background()), its error
\* dropped; then 500.
UploadCleanup ==
    /\ req.pc = "cleanup"
    /\ \E ok \in BOOLEAN :
          /\ blobs' = IF ok THEN blobs \ {req.key} ELSE blobs
          /\ req' = [req EXCEPT !.pc = "done", !.status = 500, !.delKey = req.key]
    /\ UNCHANGED <<member, rows, nextId, nreq>>
    /\ UNCHANGED <<hubVars, cliVars, extVars>>
    /\ UNCHANGED pumpVars
    /\ UNCHANGED mgrVars

\* From GetPresignedURL to the answer: the presign fails under an ended
\* context and may fail otherwise, and a failure only empties the url;
\* BroadcastToRoom(roomID, wsMessage), the envelope carrying that url; 201.
\* A panic of the broadcast is turned into a 500 by the router's Recoverer.
UploadBroadcast ==
    /\ req.pc = "broadcast"
    /\ BroadcastToRoom(VoiceEnvelopeType, req.id)
    /\ \E ok \in {b \in BOOLEAN : req.ctxDone => ~b} :
          req' = [req EXCEPT !.pc = "done", !.bcast = TRUE,
                             !.url = IF ok THEN "url" ELSE "",
                             !.status = IF hubPc # "none" /\ bcastClosed THEN 500 ELSE 201]
    /\ UNCHANGED <<member, blobs, rows, nextId, nreq>>
    /\ UNCHANGED <<hubPc, clients, bcastClosed, shutdownSig, cur, todo, pend, ret,
                   connected, sent, procSeq>>
    /\ UNCHANGED cliVars
    /\ UNCHANGED sends
    /\ UNCHANGED pumpVars
    /\ UNCHANGED mgrVars

\* Fault variant of DeleteBegin: the sender of the message is not compared
\* with the requester.
DeleteBeginAnyUser(u, t, e) ==
    /\ req.pc = "idle"
    /\ IF e \/ ~(\E row \in rows : row.id = t)
       THEN /\ req' = [NoRequest EXCEPT !.op = "delete", !.pc = "done", !.sender = u,
                                        !.target = t, !.probeErr = e, !.status = 404]
            /\ UNCHANGED nreq
       ELSE LET message == CHOOSE row \in rows : row.id = t
            IN /\ nreq < MaxRequests
               /\ req' = [NoRequest EXCEPT !.op = "delete", !.pc = "delS3",
                              !.sender = u, !.target = t, !.key = message.key]
               /\ nreq' = nreq + 1
    /\ UNCHANGED <<member, blobs, rows, nextId>>
    /\ UNCHANGED <<hubVars, cliVars, extVars>>
    /\ UNCHANGED pumpVars
    /\ UNCHANGED mgrVars

\* HandleDeleteVoiceMessage up to the delete on the object store: the message
\* is looked up (404 when the lookup fails) and must be the requester's own
\* (403).  u is the requester, t the id asked for (a well-formed one), e
\* whether the lookup returns an error.
DeleteBegin(u, t, e) ==
    /\ req.pc = "idle"
    /\ IF e \/ ~(\E row \in rows : row.id = t)
       THEN /\ req' = [NoRequest EXCEPT !.op = "delete", !.pc = "done", !.sender = u,
                                        !.target = t, !.probeErr = e, !.status = 404]
            /\ UNCHANGED nreq
       ELSE LET message == CHOOSE row \in rows : row.id = t
            IN IF message.sender # u
               THEN /\ req' = [NoRequest EXCEPT !.op = "delete", !.pc = "done",
                                   !.sender = u, !.target = t, !.status = 403]
                    /\ UNCHANGED nreq
               ELSE /\ nreq < MaxRequests
                    /\ req' = [NoRequest EXCEPT !.op = "delete", !.pc = "delS3",
                                   !.sender = u, !.target = t, !.key = message.key]
                    /\ nreq' = nreq + 1
    /\ UNCHANGED <<member, blobs, rows, nextId>>
    /\ UNCHANGED <<hubVars, cliVars, extVars>>
    /\ UNCHANGED pumpVars
    /\ UNCHANGED mgrVars

\* h.fileStore.DeleteVoiceMessage(ctx, message.S3Key): an error is logged and
\* the handler goes on to the database.
DeleteS3 ==
    /\ req.pc = "delS3"
    /\ \E ok \in {b \in BOOLEAN : req.ctxDone => ~b} :
          blobs' = IF ok THEN blobs \ {req.key} ELSE blobs
    /\ req' = [req EXCEPT !.pc = "delDB", !.delKey = req.key]
    /\ UNCHANGED <<member, rows, nextId, nreq>>
    /\ UNCHANGED <<hubVars, cliVars, extVars>>
    /\ UNCHANGED pumpVars
    /\ UNCHANGED mgrVars

\* h.dbStore.DeleteVoiceMessage(ctx, messageID): 500 when it fails (an error
\* of the store, an ended context, no row affected), 200 otherwise.
DeleteDB ==
    /\ req.pc = "delDB"
    /\ \E ok \in {b \in BOOLEAN : req.ctxDone => ~b} :
          IF ok /\ (\E row \in rows : row.id = req.target)
          THEN /\ rows' = {row \in rows : row.id # req.target}
               /\ req' = [req EXCEPT !.pc = "done", !.status = 200]
          ELSE /\ req' = [req EXCEPT !.pc = "done", !.status = 500]
               /\ UNCHANGED rows
    /\ UNCHANGED <<member, blobs, nextId, nreq>>
    /\ UNCHANGED <<hubVars, cliVars, extVars>>
    /\ UNCHANGED pumpVars
    /\ UNCHANGED mgrVars

\* The answer has been written; the server takes the next request.
Reset ==
    /\ req.pc = "done"
    /\ req' = NoRequest
    /\ UNCHANGED <<member, blobs, rows, nextId, nreq>>
    /\ UNCHANGED <<hubVars, cliVars, extVars>>
    /\ UNCHANGED pumpVars
    /\ UNCHANGED mgrVars

\* ------------------------------------------------------------------ Spec
Next ==
    \/ \E c \in Clients : Connect(c)
    \/ ExtSend
    \/ ManagerShutdown
    \/ \E c \in Clients : HubRecvRegister(c)
    \/ HubSendJoined
    \/ \E c \in Clients : HubRecvUnregister(c)
    \/ HubSendLeft
    \/ HubRecvBroadcast
    \/ HubRecvShutdown
    \/ \E c \in Clients : ReaderError(c)
    \/ \E c \in Clients : WriterWrite(c)
    \/ \E c \in Clients : WriterClose(c)

Spec == Init /\ [][Next]_vars

\* The hub, the pumps and the external senders, without shutdown, under the
\* scheduling of the Go runtime: a goroutine that can take a step is
\* eventually run, so the hub loop and the writers do not stand still while
\* a step of theirs stays possible.
NextLive ==
    \/ \E c \in Clients : Connect(c)
    \/ ExtSend
    \/ \E c \in Clients : HubRecvRegister(c)
    \/ HubSendJoined
    \/ \E c \in Clients : HubRecvUnregister(c)
    \/ HubSendLeft
    \/ HubRecvBroadcast
    \/ \E c \in Clients : ReaderError(c)
    \/ \E c \in Clients : WriterWrite(c)

SpecLive ==
    /\ Init
    /\ [][NextLive]_vars
    /\ WF_vars(HubSendJoined)
    /\ WF_vars(HubSendLeft)
    /\ WF_vars(HubRecvBroadcast)
    /\ \A c \in Clients : WF_vars(WriterWrite(c))

\* The same with the writers' exit.  A request waiting at the unbuffered
\* unregister inbox is taken at one of the hub's returns to its select (the
\* select picks among the ready cases at random), hence the strong fairness
\* of HubRecvUnregister.
NextDisconnect ==
    \/ NextLive
    \/ \E c \in Clients : WriterClose(c)

SpecDisconnect ==
    /\ Init
    /\ [][NextDisconnect]_vars
    /\ WF_vars(HubSendJoined)
    /\ WF_vars(HubSendLeft)
    /\ WF_vars(HubRecvBroadcast)
    /\ \A c \in Clients : SF_vars(HubRecvUnregister(c))
    /\ \A c \in Clients : WF_vars(WriterWrite(c))
    /\ \A c \in Clients : WF_vars(WriterClose(c))

\* The voice pipeline with its stores, the membership changes and the side
\* of the room's hub the pipeline meets: the hub's creation by a first
\* connection, its inbox, its shutdown.
NextUpload ==
    \/ \E i \in UploadInputs : UploadBegin(i.s, i.n, i.w, i.r, i.d, i.a, i.e)
    \/ CancelCtx
    \/ UploadPut
    \/ UploadInsert
    \/ UploadCleanup
    \/ UploadBroadcast
    \/ \E u \in Users, t \in 1..(2 * MaxRequests), e \in BOOLEAN : DeleteBegin(u, t, e)
    \/ DeleteS3
    \/ DeleteDB
    \/ Reset
    \/ \E u \in Users : Leave(u)
    \/ Connect(1)
    \/ HubRecvBroadcast
    \/ ManagerShutdown
    \/ HubRecvShutdown

SpecUpload == Init /\ [][NextUpload]_vars

\* The upgrade handler in front of the connection manager, the membership
\* changes, and the hub registering the clients handed to it.
NextUpgrade ==
    \/ \E c \in Clients, i \in UpgradeInputs : HandleUpgrade(c, i.r, i.q, i.h, i.e, i.g)
    \/ \E u \in Users : Leave(u)
    \/ \E c \in Clients : HubRecvRegister(c)
    \/ HubSendJoined
    \/ HubRecvBroadcast
    \/ \E c \in Clients : WriterWrite(c)

SpecUpgrade == Init /\ [][NextUpgrade]_vars

\* The hub fed with register requests, a repeated one among them.
NextRegister ==
    \/ \E c \in Clients : Connect(c)
    \/ \E c \in Clients : HubRecvRegister(c)
    \/ \E c \in Clients : HubRecvRegisterAgain(c)
    \/ HubSendJoined
    \/ HubRecvBroadcast
    \/ HubSendLeft
    \/ \E c \in Clients : WriterWrite(c)

SpecRegister == Init /\ [][NextRegister]_vars

\* The pumps of the registered clients with the frames their peers send.
NextReader ==
    \/ \E c \in Clients : Connect(c)
    \/ \E c \in Clients : HubRecvRegister(c)
    \/ HubSendJoined
    \/ HubRecvBroadcast
    \/ HubSendLeft
    \/ \E c \in Clients : WriterWrite(c)
    \/ \E c \in Clients, t \in FrameTypes : ReaderFrame(c, t)

SpecReader == Init /\ [][NextReader]_vars

\* The outbound path with payloads that do not marshal among the broadcasts.
NextEncode ==
    \/ \E c \in Clients : Connect(c)
    \/ \E c \in Clients : HubRecvRegister(c)
    \/ HubSendJoined
    \/ ExtSend
    \/ ExtSendPayload
    \/ HubRecvBroadcast
    \/ HubSendLeft
    \/ \E c \in Clients : WriterWrite(c)
    \/ \E c \in Clients : WriterClose(c)

SpecEncode == Init /\ [][NextEncode]_vars

\* The room -> hub map under concurrent connects, reaping and shutdown.
NextManager ==
    \/ \E p \in Callers : GetLoad(p)
    \/ \E p \in Callers : GetLoadOrStore(p)
    \/ \E p \in Callers : RegisterAt(p)
    \/ CleanupSnapshot
    \/ CleanupShutdown
    \/ CleanupDelete
    \/ ShutdownHubs
    \/ \E h \in HubIds : HubLoopStops(h)
    \/ Elapse

SpecManager == Init /\ [][NextManager]_vars

\* ------------------------------------------- the hubs of several rooms
otherVars == <<hubVars, cliVars, extVars, upVars, pumpVars, up, shutdownReturned, mapVars,
               auxVars>>

RoomHasRoom(c) == Len(conn[c].send) < ClientCap

\* The range loop of handleBroadcast of the hub of room r over the clients
\* in T with envelope m, up to the next blocking send: the clients in S get
\* m; either that is all of T, or the loop reaches a client f whose queue
\* is full and handleUnregister(f) deletes f from this hub's set, closes
\* f's queue and goes to send user_left.  hs is the hub as the step found it.
RoomRange(r, hs, m, T) ==
    \E S \in SUBSET {c \in T : RoomHasRoom(c)} :
        \/ /\ S = T
           /\ conn' = [c \in Clients |->
                         IF c \in S THEN [conn[c] EXCEPT !.send = Append(@, m)] ELSE conn[c]]
           /\ hubs' = [hubs EXCEPT ![r] = [hs EXCEPT !.pc = "select", !.todo = {},
                                                      !.ret = "select", !.pend = 0]]
        \/ \E f \in {c \in T : ~RoomHasRoom(c)} :
              /\ conn' = [c \in Clients |->
                            IF c \in S THEN [conn[c] EXCEPT !.send = Append(@, m)]
                            ELSE IF c = f THEN [conn[c] EXCEPT !.closed = TRUE]
                            ELSE conn[c]]
              /\ hubs' = [hubs EXCEPT ![r] =
                            [hs EXCEPT !.pc = "sendLeft", !.clients = @ \ {f},
                                       !.cur = m, !.todo = T \ (S \cup {f}),
                                       !.ret = "bcast", !.pend = f]]

\* HandleConnection for connection c with roomID r: GetOrCreateHub(r) starts
\* the loop of the room's hub when it is not running, NewClient(hub, ...)
\* binds the client to that hub, and the caller waits on hub.register.
RoomConnect(c, r) ==
    /\ conn[c].st = "idle"
    /\ conn' = [conn EXCEPT ![c] = [@ EXCEPT !.st = "registering", !.room = r]]
    /\ hubs' = [hubs EXCEPT ![r] = [@ EXCEPT !.run = TRUE]]
    /\ UNCHANGED <<roomSends, keyVars>>
    /\ UNCHANGED otherVars

\* case client := <-h.register of the hub the client is bound to:
\* handleRegister adds the client to h.clients, enqueues connection_ack on
\* its queue and goes to send user_joined.
RoomRecvRegister(c) ==
    /\ conn[c].st = "registering"
    /\ hubs[conn[c].room].pc = "select"
    /\ hubs' = [hubs EXCEPT ![conn[c].room] =
                  [@ EXCEPT !.clients = @ \cup {c}, !.pc = "sendJoined", !.pend = c]]
    /\ conn' = [conn EXCEPT ![c] =
                  [@ EXCEPT !.st = "in",
                            !.send = IF RoomHasRoom(c)
                                     THEN Append(@, RoomEnvelope(conn[c].room, "connection_ack"))
                                     ELSE @]]
    /\ UNCHANGED <<roomSends, keyVars>>
    /\ UNCHANGED otherVars

\* broadcastUserJoined of the hub of room r: h.broadcast <- user_joined.
RoomSendJoined(r) ==
    /\ hubs[r].pc = "sendJoined"
    /\ Len(hubs[r].broadcast) < HubCap
    /\ hubs' = [hubs EXCEPT ![r] =
                  [@ EXCEPT !.broadcast = Append(@, RoomEnvelope(r, "user_joined")),
                            !.pc = "select", !.pend = 0]]
    /\ UNCHANGED <<conn, roomSends, keyVars>>
    /\ UNCHANGED otherVars

\* ConnectionManager.BroadcastToRoom(r, message): cm.hubs.Load(r), then Send
\* on that hub, which queues the envelope when its inbox has room.
RoomBroadcast(r) ==
    /\ roomSends < MaxSends
    /\ roomSends' = roomSends + 1
    /\ hubs' = IF hubs[r].run /\ Len(hubs[r].broadcast) < HubCap
               THEN [hubs EXCEPT ![r] =
                       [@ EXCEPT !.broadcast = Append(@, RoomEnvelope(r, VoiceEnvelopeType))]]
               ELSE hubs
    /\ UNCHANGED <<conn, keyVars>>
    /\ UNCHANGED otherVars

\* Fault variant of RoomRecvBroadcast: the envelope is handed to the clients
\* of every hub, not to those of the hub that received it.
RoomRecvBroadcastAll(r) ==
    /\ hubs[r].run
    /\ hubs[r].pc = "select"
    /\ hubs[r].broadcast # <<>>
    /\ RoomRange(r, [hubs[r] EXCEPT !.broadcast = Tail(@)], Head(hubs[r].broadcast),
                 UNION {hubs[q].clients : q \in Rooms})
    /\ UNCHANGED <<roomSends, keyVars>>
    /\ UNCHANGED otherVars

\* case message := <-h.broadcast of the hub of room r: handleBroadcast ranges
\* over h.clients of this hub.
RoomRecvBroadcast(r) ==
    /\ hubs[r].run
    /\ hubs[r].pc = "select"
    /\ hubs[r].broadcast # <<>>
    /\ RoomRange(r, [hubs[r] EXCEPT !.broadcast = Tail(@)], Head(hubs[r].broadcast),
                 hubs[r].clients)
    /\ UNCHANGED <<roomSends, keyVars>>
    /\ UNCHANGED otherVars

\* broadcastUserLeft of the hub of room r: h.broadcast <- user_left, then
\* back to the select or to the range loop.
RoomSendLeft(r) ==
    /\ hubs[r].pc = "sendLeft"
    /\ Len(hubs[r].broadcast) < HubCap
    /\ LET hs == [hubs[r] EXCEPT !.broadcast = Append(@, RoomEnvelope(r, "user_left"))]
       IN IF hubs[r].ret = "bcast"
          THEN RoomRange(r, hs, hubs[r].cur, hubs[r].todo)
          ELSE /\ hubs' = [hubs EXCEPT ![r] = [hs EXCEPT !.pc = "select", !.pend = 0]]
               /\ UNCHANGED conn
    /\ UNCHANGED <<roomSends, keyVars>>
    /\ UNCHANGED otherVars

\* The reader of connection c meets a read error and c.hub.unregister <- c
\* is received by the hub the client is bound to: handleUnregister.
RoomUnregister(c) ==
    /\ conn[c].st = "in"
    /\ hubs[conn[c].room].pc = "select"
    /\ IF c \in hubs[conn[c].room].clients
       THEN /\ hubs' = [hubs EXCEPT ![conn[c].room] =
                          [@ EXCEPT !.clients = @ \ {c}, !.pc = "sendLeft",
                                    !.ret = "select", !.pend = c]]
            /\ conn' = [conn EXCEPT ![c] = [@ EXCEPT !.st = "out", !.closed = TRUE]]
       ELSE /\ conn' = [conn EXCEPT ![c] = [@ EXCEPT !.st = "out"]]
            /\ UNCHANGED hubs
    /\ UNCHANGED <<roomSends, keyVars>>
    /\ UNCHANGED otherVars

\* writePump of connection c writes the frame at the head of its queue.
RoomWrite(c) ==
    /\ conn[c].send # <<>>
    /\ conn' = [conn EXCEPT ![c] = [@ EXCEPT !.send = Tail(@)]]
    /\ UNCHANGED <<hubs, roomSends, keyVars>>
    /\ UNCHANGED otherVars

NextRooms ==
    \/ \E c \in Clients, r \in Rooms : RoomConnect(c, r)
    \/ \E c \in Clients : RoomRecvRegister(c)
    \/ \E r \in Rooms : RoomSendJoined(r)
    \/ \E r \in Rooms : RoomBroadcast(r)
    \/ \E r \in Rooms : RoomRecvBroadcast(r)
    \/ \E r \in Rooms : RoomSendLeft(r)
    \/ \E c \in Clients : RoomUnregister(c)
    \/ \E c \in Clients : RoomWrite(c)

SpecRooms == Init /\ [][NextRooms]_vars

\* ----------------------------------------------------- naming the blob
\* The server runs at moment t of UTC in a zone z hours off UTC.
ClockAt(t, z) ==
    /\ ~wall.set
    /\ IsDate(t)
    /\ wall' = [set |-> TRUE, t |-> t, z |-> z]
    /\ UNCHANGED named
    /\ UNCHANGED roomVars
    /\ UNCHANGED otherVars

\* UploadVoiceMessage(ctx, messageID, data, audioFormat) names the object
\* from time.Now(); gen is the name the other copy of the store computes.
NameObject(id, fmt) ==
    /\ wall.set
    /\ named' = [put |-> objectName(Now(wall.t, wall.z), id, fmt),
                 gen |-> generateObjectName(Now(wall.t, wall.z), id, fmt)]
    /\ UNCHANGED wall
    /\ UNCHANGED roomVars
    /\ UNCHANGED otherVars

NextKey ==
    \/ \E t \in Moments, z \in Zones : ClockAt(t, z)
    \/ \E id \in {1, 2} : NameObject(id, "webm")

SpecKey == Init /\ [][NextKey]_vars

\* ============================================================ properties
\* ---- helpers of the properties
\* The step is one made by the range loop of handleBroadcast: it starts with
\* the receive from the inbox or resumes after the send of user_left.
RangeStep ==
    \/ hubPc = "select" /\ broadcast # <<>> /\ broadcast' = Tail(broadcast)
    \/ /\ hubPc = "sendLeft" /\ ret = "bcast"
       /\ Len(broadcast') = Len(broadcast) + 1
       /\ broadcast'[Len(broadcast')].type = "user_left"

\* The range loop reaches client c in this step.
Visited(c) ==
    /\ RangeStep
    /\ c \in (IF hubPc = "select" THEN clients ELSE todo)
    /\ c \notin todo'

\* The hub goroutine sits in a send on its own inbox, which is full; the hub
\* is the only receiver of that inbox.
Stalled == hubPc \in {"sendJoined", "sendLeft"} /\ Len(broadcast) = HubCap

\* A stalled hub stays stalled whatever the other tasks do.
StallIsForever == [][Stalled => Stalled']_vars

\* A client's queue changes only by a write of its head or an enqueue at
\* its tail.
Fifo(c) ==
    \/ send'[c] = send[c]
    \/ send[c] # <<>> /\ send'[c] = Tail(send[c])
    \/ Len(send'[c]) = Len(send[c]) + 1 /\ SubSeq(send'[c], 1, Len(send[c])) = send[c]

Enqueued(c) == Len(send'[c]) = Len(send[c]) + 1

\* C1: every envelope the hub places on a client's queue was dispatched to
\* the hub after every envelope placed on that queue before it, and queues
\* are written head first: each client receives envelopes in the order of
\* their dispatch to the hub.
OrderedDelivery ==
    [][\A c \in Clients :
          /\ Fifo(c)
          /\ horizon'[c] >= horizon[c]
          /\ Enqueued(c) /\ send'[c][Len(send'[c])].seq > 0
                => /\ send'[c][Len(send'[c])].seq > horizon[c]
                   /\ horizon'[c] = send'[c][Len(send'[c])].seq]_vars

\* C1 witness: a client holds two envelopes of the hub's inbox, one of them
\* sent from outside the hub, the later dispatched behind the earlier.
TwoInOrder ==
    \E c \in Clients :
        /\ Len(send[c]) = 2
        /\ send[c][1].seq > 0
        /\ send[c][2].seq > send[c][1].seq
        /\ \E i \in 1..2 : send[c][i].type = VoiceEnvelopeType

\* C2: a client the range loop reaches while its queue is full leaves the
\* client set and has its queue closed in that step, with nothing enqueued;
\* and a client whose queue is closed never returns to the client set and
\* never has anything enqueued again.
SlowConsumerEvicted ==
    [][\A c \in Clients :
          /\ Visited(c) /\ Len(send[c]) = ClientCap
                => c \notin clients' /\ sendClosed'[c] /\ send'[c] = send[c]
          /\ sendClosed[c]
                => /\ sendClosed'[c]
                   /\ c \notin clients'
                   /\ send'[c] = send[c] \/ (send[c] # <<>> /\ send'[c] = Tail(send[c]))]_vars

\* C2 witness: the hub has just evicted a client whose queue was full.
EvictionInProgress ==
    /\ hubPc = "sendLeft"
    /\ ret = "bcast"
    /\ pend \notin clients
    /\ sendClosed[pend]
    /\ Len(send[pend]) = ClientCap
    /\ dropped > 0

\* C3: while one client is evicted for a full queue, no other registered
\* client that has room is left without the envelope in hand behind a hub
\* that cannot go on.
OthersKeepReceiving ==
    ~(/\ Stalled
      /\ hubPc = "sendLeft"
      /\ ret = "bcast"
      /\ \E c \in todo : c \in clients /\ HasRoom(c))

\* C4: no handler of the hub ever waits on a send it can never complete.
HubNeverStalls == ~Stalled

InRange(str) == AtoiOk(str) /\ Atoi(str) >= 1 /\ Atoi(str) <= 15

\* duration_seconds is a number outside [1, 15]
OutOfRange(str) == AtoiOk(str) /\ (Atoi(str) < 1 \/ Atoi(str) > 15)

\* the request is an upload that has been answered
Answered == req.op = "upload" /\ req.pc = "done"

\* C5: a broadcast made for an upload while the hub's inbox is full adds one
\* to messages_dropped, leaves the inbox as it is, and the upload answers
\* 201.
FullInboxOnlyDrops ==
    [][(/\ req.pc = "broadcast"
        /\ req'.pc = "done"
        /\ hubPc # "none"
        /\ Len(broadcast) = HubCap)
          => /\ dropped' = dropped + 1
             /\ broadcast' = broadcast
             /\ req'.status = 201]_vars

\* C7: an upload that failed after its blob was put either has a metadata
\* row for that blob, or the delete of the object store was called with the
\* key the put returned.
CompensatedFailure ==
    (Answered /\ req.status # 201 /\ req.put)
        => \/ \E row \in rows : row.key = req.key
           \/ req.delKey = req.key

\* C7 witness: the insert failed under an ended request context and the
\* cleanup still deleted the blob.
CleanupAfterCancel ==
    /\ Answered
    /\ req.put
    /\ ~req.inserted
    /\ req.ctxDone
    /\ req.delKey = req.key
    /\ req.key \notin blobs

\* C8: whenever no request is in progress, the blob key of every metadata
\* row names an object the object store holds.
NoOrphanMetadata ==
    req.pc \in {"idle", "done"} => \A row \in rows : row.key \in blobs

\* C9: an accepted upload has a duration in [1, 15], and an upload of an
\* authenticated user whose duration is a number outside [1, 15] is answered
\* 400 and puts no blob, inserts no row and submits no broadcast.
DurationValidated ==
    Answered
        => /\ req.status = 201 => InRange(req.dur)
           /\ (req.sender # NoUser /\ OutOfRange(req.dur))
                 => req.status = 400 /\ ~req.put /\ ~req.inserted /\ ~req.bcast

\* C10: the sender is a participant of the room in the step that commits the
\* metadata row of their upload.
MemberWhenCommitted ==
    [][(req.pc = "insert" /\ req'.inserted) => req.sender \in member]_vars

\* ---- helpers: the checks an upload passes before the membership probe
\* the request is an upload that has been answered, came from an
\* authenticated user and passed the parse of the form and the checks of
\* room_id and duration_seconds
ReachedAuthorise ==
    /\ Answered
    /\ req.sender # NoUser
    /\ FormParses(req.size, req.form)
    /\ req.room = "room"
    /\ DurationOk(req.dur)

\* the request left no trace: no blob put, no row inserted, no broadcast
NothingWritten == ~req.put /\ ~req.inserted /\ ~req.bcast

\* C11: an upload of an authenticated user that reaches the membership check
\* and finds the user not to be a participant of the room is answered 403,
\* and it puts no blob, inserts no row and submits no broadcast.
NonMemberForbidden ==
    (ReachedAuthorise /\ ~req.probeErr /\ ~req.wasMember)
        => req.status = 403 /\ NothingWritten

\* C11 witness: a well-formed upload with an audio part, sent by a user who
\* is not in the room, has been answered 403.
NonMemberRejected ==
    /\ ReachedAuthorise
    /\ ~req.probeErr
    /\ ~req.wasMember
    /\ req.audio = "bytes"
    /\ req.status = 403

\* a broadcast is submitted to the connection manager in this step
Submits ==
    \/ ~req.bcast /\ req'.bcast
    \/ Len(broadcast') > Len(broadcast)
    \/ dropped' > dropped
    \/ panics' > panics

\* C12: a broadcast is submitted only by an upload whose blob put and
\* metadata insert both succeeded, the row and the blob being in the stores
\* at that moment; an upload answered without both has submitted none.
BroadcastAfterCommit ==
    [][/\ Submits => /\ req.op = "upload"
                     /\ req.pc = "broadcast"
                     /\ req.put /\ req.inserted
                     /\ req.key \in blobs
                     /\ \E row \in rows : row.id = req.id /\ row.key = req.key
       /\ (req'.op = "upload" /\ req'.pc = "done" /\ ~(req'.put /\ req'.inserted))
             => ~req'.bcast]_vars

\* C12 witness: an upload was answered 201 and its envelope waits in the
\* inbox of the room's hub.
BroadcastCommitted ==
    /\ Answered
    /\ req.status = 201
    /\ req.bcast
    /\ \E i \in 1..Len(broadcast) :
          broadcast[i].type = VoiceEnvelopeType /\ broadcast[i].ref = req.id

\* C13: an upload whose membership probe returns an error is answered 500
\* and writes nothing.
ProbeErrorIs500 ==
    (ReachedAuthorise /\ req.probeErr) => req.status = 500 /\ NothingWritten

\* C14: an upload of an authenticated user whose body is longer than
\* maxUploadSize is answered 400 and writes nothing, and a body of exactly
\* maxUploadSize is not answered by the size cap.
SizeCapIs400 ==
    (Answered /\ req.sender # NoUser)
        => /\ req.size > maxUploadSize => req.status = 400 /\ NothingWritten
           /\ (req.size = maxUploadSize /\ req.form) => req.status # 401

\* C15: an upload whose presign failed after its blob and row were stored is
\* answered 201 with an empty url, has submitted its broadcast, and its row
\* and blob are still in the stores.
PresignFailureIs201 ==
    (Answered /\ req.put /\ req.inserted /\ req.url = "")
        => /\ req.status = 201
           /\ req.bcast
           /\ req.key \in blobs
           /\ \E row \in rows : row.id = req.id /\ row.key = req.key

\* ---- helpers of the properties of the upgrade handler
\* the token connection c's request carries, in the query or in the header
Carried(c) == IF up[c].token # "" THEN up[c].token ELSE up[c].header

\* the user of the token carried was a participant when the request was served
WasMember(c) == ValidateAccessToken(Carried(c)) \in up[c].members

\* connection c has been handed to the connection manager
HandedOver(c) == rd[c] # "idle" \/ c \in clients

\* A connection is handed to the connection manager only for a request whose
\* room_id parsed, whose token validated and whose user IsUserInRoom found
\* in the room; while no request has been admitted the room has no hub.
HandOverOnlyAfterChecks ==
    /\ \A c \in Clients :
          HandedOver(c) => /\ up[c].status = 101
                           /\ up[c].room = "room"
                           /\ up[c].user # NoUser
                           /\ WasMember(c) /\ ~up[c].probeErr
    /\ (\A c \in Clients : up[c].status # 101) => hubPc = "none" /\ clients = {}

\* C16: a connection is handed over only after the three checks; a missing
\* or malformed room_id is answered 400, a request that carries no token or
\* an invalid one 401, one whose user is not in the room 403, and none of
\* these is handed over.
AdmittedBeforeHandOver ==
    /\ HandOverOnlyAfterChecks
    /\ \A c \in Clients :
          up[c].status # 0
             => /\ up[c].room # "room" => up[c].status = 400
                /\ (up[c].room = "room" /\ ValidateAccessToken(Carried(c)) = NoUser)
                      => up[c].status = 401
                /\ (/\ up[c].room = "room"
                    /\ ValidateAccessToken(Carried(c)) # NoUser
                    /\ ~up[c].probeErr
                    /\ ~WasMember(c)) => up[c].status = 403
                /\ up[c].status \in {400, 401, 403} => ~HandedOver(c)

\* C17: a request of a participant with a valid token in the Authorization
\* header and none in the query is admitted like one with the token in the
\* query.
HeaderTokenAccepted ==
    \A c \in Clients :
        (/\ up[c].status # 0
         /\ up[c].room = "room"
         /\ up[c].token = ""
         /\ ValidateAccessToken(up[c].header) # NoUser
         /\ WasMember(c) /\ ~up[c].probeErr /\ up[c].upgradeOk)
            => up[c].status = 101 /\ HandedOver(c)

\* ---- shutdown
\* C19: when ConnectionManager.Shutdown has returned, the room's hub has
\* stopped and the queue of every client it held is closed.
ShutdownWaitsForStopped ==
    shutdownReturned
        => /\ hubPc = "stopped"
           /\ \A c \in Clients : rd[c] \in {"running", "unregistering"} => sendClosed[c]

\* C20: no reader waits on its unregister request at a hub whose loop has
\* returned, where nothing will ever receive it.
ReaderReturnsOnShutdown ==
    \A c \in Clients : ~(hubPc = "stopped" /\ wrExited[c] /\ rd[c] = "unregistering")

\* A reader waiting at a stopped hub waits forever.
StrandedReaderIsForever ==
    [][\A c \in Clients :
          (hubPc = "stopped" /\ rd[c] = "unregistering")
              => (hubPc' = "stopped" /\ rd'[c] = "unregistering")]_vars

\* ---- the room -> hub map
\* the call of caller p has returned
Returned(p) == gc[p].pc \in {"done", "registered"}

\* the callers whose calls overlapped got the same hub
ConcurrentCallersAgree ==
    \A p, q \in Callers :
        (Returned(p) /\ Returned(q) /\ q \in gc[p].peers) => gc[p].got = gc[q].got

\* at no time do two hub loops run for the room
OneLoopAtATime == Cardinality({h \in HubIds : hubLoop[h] = "running"}) <= 1

\* C18: callers of GetOrCreateHub for the room that overlap in time get the
\* same hub, and at no time is more than one hub loop running for the room.
OneHubPerRoom == ConcurrentCallersAgree /\ OneLoopAtATime

\* ---- reaping
\* C21: CleanupIdleHubs shuts down and removes only hubs that have no
\* connected client and have been idle for the threshold: the hub it has
\* picked for shutdown has seen no activity for IdleThreshold ticks.
ReapsOnlyIdleHubs ==
    reap.pc = "shutdown" => idleFor[reap.hub] >= IdleThreshold

\* ---- order of the join notification
\* C22: a joining client's own user_joined precedes every voice envelope the
\* hub hands it: no client's queue holds a voice envelope ahead of the
\* user_joined of that client's own registration.
JoinedBeforeVoice ==
    \A c \in Clients :
        \A i, j \in 1..Len(send[c]) :
            (i < j /\ send[c][j].type = "user_joined" /\ send[c][j].ref = c)
                => send[c][i].type # VoiceEnvelopeType

\* ---- unregister requests
\* the hub receives in this step the unregister request of client c, which
\* is not in h.clients
UnregisterOfAbsent(c) ==
    /\ hubPc = "select"
    /\ rd[c] = "unregistering"
    /\ rd'[c] = "done"
    /\ c \notin clients

\* C23: an unregister request for a client that is not in the hub's set
\* changes nothing: the set, the metrics and every queue stay as they are, no
\* queue is closed and no user_left is sent.
UnregisterIdempotent ==
    [][\A c \in Clients :
          UnregisterOfAbsent(c)
              => /\ clients' = clients
                 /\ connected' = connected
                 /\ sent' = sent
                 /\ dropped' = dropped
                 /\ sendClosed' = sendClosed
                 /\ send' = send
                 /\ broadcast' = broadcast
                 /\ nextSeq' = nextSeq
                 /\ hubPc' = "select"]_vars

\* The hub has handled the unregister request of a client it had evicted
\* before: the only drop counted is that eviction (no external broadcast
\* was made) and every other client is still registered.
UnregisteredAfterEviction ==
    \E c \in Clients :
        /\ rd[c] = "done"
        /\ sends = 0
        /\ dropped = 1
        /\ \A o \in Clients \ {c} : o \in clients

\* ---- repeated register requests
\* C24: a register request for a client that is already in the hub's set is
\* a no-op: the hub does not go on to send a second user_joined for it.
DuplicateRegisterIsNoOp ==
    ~(dup # 0 /\ hubPc = "sendJoined" /\ pend = dup)

\* ---- deletion
\* the handler takes up in this step a DELETE whose lookup returns a message
\* sent by somebody else than the requester
DeleteByOther ==
    /\ req.pc = "idle"
    /\ req'.op = "delete"
    /\ ~req'.probeErr
    /\ \E row \in rows : row.id = req'.target /\ row.sender # req'.sender

\* C25: a DELETE by a user who is not the stored sender of the message is
\* answered 403 and is over with that answer; the blob and the metadata row
\* are left as they were.
OnlySenderDeletes ==
    [][DeleteByOther
          => /\ req'.status = 403
             /\ req'.pc = "done"
             /\ blobs' = blobs
             /\ rows' = rows]_vars

\* A DELETE by another user has been answered 403 and the message is still
\* stored, blob and row.
OtherUserRefused ==
    /\ req.op = "delete"
    /\ req.status = 403
    /\ \E row \in rows :
          row.id = req.target /\ row.sender # req.sender /\ row.key \in blobs

\* ---- routing of external broadcasts
\* a task outside the hub calls BroadcastToRoom in this step
ExternalBroadcast == sends' = sends + 1

\* C26: BroadcastToRoom for a room without a hub drops the envelope and
\* creates no hub (inbox, counters and hub position stay as they are); for a
\* room with a hub whose inbox is open it is that hub's non-blocking Send:
\* the envelope is appended when the inbox has room and counted as dropped
\* when it is full, and the caller never waits.
RoutedOrDropped ==
    [][ExternalBroadcast
          => /\ hubPc' = hubPc
             /\ hubPc = "none"
                   => /\ broadcast' = broadcast
                      /\ dropped' = dropped
                      /\ nextSeq' = nextSeq
                      /\ panics' = panics
             /\ (hubPc # "none" /\ ~bcastClosed /\ Len(broadcast) < HubCap)
                   => /\ broadcast' = Append(broadcast,
                                             Envelope(VoiceEnvelopeType, sends', nextSeq))
                      /\ dropped' = dropped
             /\ (hubPc # "none" /\ ~bcastClosed /\ Len(broadcast) >= HubCap)
                   => /\ broadcast' = broadcast
                      /\ dropped' = dropped + 1]_vars

\* An envelope was broadcast to the room while it had no hub, and the room
\* still has none.
DroppedWithoutHub == sends > 0 /\ hubPc = "none" /\ broadcast = <<>>

\* ---- inbound frames
\* the reader of client c takes in a frame of type t in this step, and the
\* client's queue is open and has room
Reads(c, t) ==
    /\ inbound'[c] # inbound[c]
    /\ inbound'[c] = t
    /\ HasRoom(c)
    /\ ~sendClosed[c]

\* C27: the reader answers a ping by a pong on the client's own queue, and a
\* frame of unknown type by an error envelope on that queue, without closing
\* the queue or asking the hub to unregister the client.
ReaderAnswers ==
    [][\A c \in Clients :
          /\ Reads(c, "ping")
                => send'[c] = Append(send[c], Envelope("pong", c, 0))
          /\ Reads(c, "bogus")
                => /\ send'[c] = Append(send[c], Envelope("error", c, 0))
                   /\ sendClosed'[c] = sendClosed[c]
                   /\ rd'[c] = rd[c]]_vars

\* ---- encoding errors
\* the hub takes from its inbox, in this step, an envelope that does not
\* marshal
TakesUnencodable ==
    /\ hubPc = "select"
    /\ broadcast # <<>>
    /\ broadcast' = Tail(broadcast)
    /\ ~Marshals(Head(broadcast))

UserLeftEventuallySent ==
    \A o \in Clients :
        (hubPc = "sendLeft" /\ o \in clients)
            ~> (hubPc # "sendLeft" \/ o \notin clients)

\* ---- broadcasts and shutdown
\* C30: no caller of BroadcastToRoom or Hub.Send ever sends on an inbox
\* that the hub has closed, however the call interleaves with the shutdown
\* of the hub: no such call panics.
NeverSendsOnClosedInbox == panics = 0

\* ---- connections and the lifecycle of the hubs
\* C31: a connection that HandleConnection has accepted is never stranded:
\* no caller waits with its send on the register inbox of a hub whose loop
\* has returned, where nothing will ever receive it.
NeverStranded ==
    \A p \in Callers : ~(gc[p].pc = "done" /\ hubLoop[gc[p].got] = "stopped")

\* A caller waiting at the register inbox of a stopped hub waits for ever.
StrandedCallerIsForever ==
    [][\A p \in Callers :
          (gc[p].pc = "done" /\ hubLoop[gc[p].got] = "stopped")
              => (gc'[p].pc = "done" /\ hubLoop'[gc'[p].got] = "stopped")]_vars

\* C32: the shutdown signal of a hub is raised at most once: Hub.Shutdown is
\* never called a second time on the same hub.
ShutdownSignalledOnce == \A h \in HubIds : shutCalls[h] <= 1

HandlesShutdown == hubPc = "select" /\ hubPc' = "stopped"

\* C34: when the hub handles shutdown, the queue of every client still in
\* the set is closed, the inbox is closed, the set is emptied and the loop
\* returns; from then on the hub handles no register request, no unregister
\* request and no broadcast: the set stays empty, the inbox is not read and
\* no queue grows.
ShutdownIsFinal ==
    [][/\ HandlesShutdown
             => /\ \A c \in clients : sendClosed'[c]
                /\ bcastClosed'
                /\ clients' = {}
       /\ hubPc = "stopped"
             => /\ hubPc' = "stopped"
                /\ clients' = {}
                /\ broadcast' = broadcast
                /\ procSeq' = procSeq
                /\ \A c \in Clients :
                      /\ rd[c] \in {"registering", "unregistering"} => rd'[c] = rd[c]
                      /\ ~Enqueued(c)]_vars

\* The hub has shut down with a client registered, whose queue is closed
\* now, while a register request and an envelope in the inbox were waiting;
\* both are still waiting.
StoppedWithWorkPending ==
    /\ hubPc = "stopped"
    /\ broadcast # <<>>
    /\ \E c \in Clients : rd[c] = "registering"
    /\ \E c \in Clients : rd[c] = "running" /\ sendClosed[c]

\* ---- disconnection
\* C35: when the reader of a client has met a read error and requested
\* unregister at a running hub, the request is eventually handled: the
\* client is out of the hub's set, its queue is closed and its writer has
\* exited.
ReaderErrorDisconnects ==
    \A c \in Clients :
        (rd[c] = "unregistering")
            ~> (rd[c] = "done" /\ c \notin clients /\ sendClosed[c] /\ wrExited[c])

\* ---- the start of the pumps
\* a pump of client c acts in this step: the reader takes in a frame or
\* meets a read error, the writer writes a frame or exits
PumpActs(c) ==
    \/ inbound'[c] # inbound[c]
    \/ rd[c] # "unregistering" /\ rd'[c] = "unregistering"
    \/ send[c] # <<>> /\ send'[c] = Tail(send[c])
    \/ ~wrExited[c] /\ wrExited'[c]

\* the register request of client c has been received by the hub, so that
\* HandleConnection has gone on past its send
Submitted(c) == rd[c] \in {"running", "unregistering", "done"}

\* C36: HandleConnection submits the client on the register inbox before it
\* starts the pumps: no pump of a client acts before the client's register
\* request has been received.
PumpsAfterRegister ==
    [][\A c \in Clients : PumpActs(c) => Submitted(c)]_vars

\* HandleConnection has returned for a client whose reader has taken in a
\* frame and whose pumps both still run.
ReturnedWhilePumpsRun ==
    \E c \in Clients : rd[c] = "running" /\ inbound[c] # "none" /\ ~wrExited[c]

\* ---- the counters of the hub
\* Hub.Send is called in this step, by a task outside the hub or by the
\* upload handler, and finds the inbox open and full.
Refused ==
    /\ sends' = sends + 1 \/ (req.pc = "broadcast" /\ req'.pc = "done")
    /\ hubPc # "none"
    /\ ~bcastClosed
    /\ Len(broadcast) >= HubCap

\* the envelope the range loop hands out in this step
Ranged == IF hubPc = "select" THEN Head(broadcast) ELSE cur

\* C37: the counters account for every delivery attempt: messages_sent
\* grows by the number of queues the range loop appends to, messages_dropped
\* by the number of clients the loop evicts plus one for a Send refused by a
\* full inbox, a full queue the loop reaches is evicted, and nothing else
\* moves the counters.
CountersAccount ==
    [][/\ sent' = sent + Cardinality({c \in Clients : RangeStep /\ Enqueued(c)})
       /\ dropped' = dropped
                       + Cardinality({c \in Clients : RangeStep /\ c \in clients \ clients'})
                       + (IF Refused THEN 1 ELSE 0)
       /\ \A c \in Clients :
              Visited(c) /\ Marshals(Ranged) /\ ~HasRoom(c)
                  => c \notin clients' /\ sendClosed'[c]]_vars

\* All three kinds of attempt have been counted: an enqueue, one eviction of
\* a full queue, and one Send refused by the full inbox.
CountedEachKind ==
    /\ sent > 0
    /\ dropped = 2
    /\ Cardinality({c \in Clients : closes[c] > 0}) = 1
    /\ hubPc \in {"select", "sendLeft"}

\* ---- the identity of an uploaded message
\* C38: a successful upload uses one message identity everywhere: the id of
\* the 201 response, which is also the id the envelope carries, is the id of
\* the committed row and the uuid inside the blob key.
OneMessageIdentity ==
    (req.op = "upload" /\ req.status = 201)
        => /\ \E row \in rows : row.id = req.id /\ row.key = req.key
           /\ req.key.id = req.id

\* ---- the isolation of rooms
\* an envelope is appended to the queue of connection c in this step
RoomEnqueued(c) == Len(conn'[c].send) = Len(conn[c].send) + 1

\* the envelope appended to the queue of connection c in this step
RoomLast(c) == conn'[c].send[Len(conn'[c].send)]

\* C39: an envelope made for room R is enqueued only onto a connection bound
\* to R's hub that is registered there or being registered there, and a
\* step that changes the client set of one hub changes it by connections
\* bound to that hub and leaves the set of every other hub as it is.
RoomsIsolated ==
    [][/\ \A c \in Clients :
              RoomEnqueued(c)
                  => /\ conn[c].room = RoomLast(c).room
                     /\ c \in hubs[RoomLast(c).room].clients \/ conn[c].st = "registering"
       /\ \A r \in Rooms :
              hubs'[r].clients # hubs[r].clients
                  => /\ \A c \in Clients :
                            (c \in hubs'[r].clients) # (c \in hubs[r].clients)
                                => conn[c].room = r
                     /\ \A q \in Rooms \ {r} : hubs'[q].clients = hubs[q].clients]_vars

\* Both rooms have a registered client; the one of room 1 holds a voice
\* envelope of room 1 in its queue, while the queue of the one of room 2 and
\* the inbox of room 2 hold no voice envelope.
VoiceStaysInRoom ==
    \E c, d \in Clients :
        /\ conn[c].room = 1 /\ c \in hubs[1].clients
        /\ conn[d].room = 2 /\ d \in hubs[2].clients
        /\ \E i \in 1..Len(conn[c].send) :
               conn[c].send[i] = RoomEnvelope(1, VoiceEnvelopeType)
        /\ \A i \in 1..Len(conn[d].send) : conn[d].send[i].room = 2
        /\ \A i \in 1..Len(hubs[2].broadcast) :
               hubs[2].broadcast[i].type # VoiceEnvelopeType

\* ---- the blob key
\* C40: the name of a blob is messages/YYYY/MM/DD/<uuid>.<ext>, its second,
\* third and fourth segments being the year, the month and the day of the
\* UTC calendar date at the moment the object is named.
KeyIsUtcDate ==
    named # NoName
        => /\ named.put.dir = "messages"
           /\ named.put.seg1 = Digits(wall.t.y)
           /\ named.put.seg2 = Pad2(wall.t.m)
           /\ named.put.seg3 = Pad2(wall.t.d)

====
